---- MODULE Spec2Model ----
(***************************************************************************)
(* The semantic tree builder of tap-consooomer: the functions that turn    *)
(* the pest parse tree of a TAP14 document into the typed Document tree.   *)
(* Both builders of the repository are modelled: the library's             *)
(* (src/src/lib.rs, impl = "lib") and the command line tool's own copy     *)
(* (src/src/main.rs, impl = "cli").                                        *)
(*                                                                         *)
(* A parse node (pest's Pair) is a record [rule, text, inner]: its rule    *)
(* tag, the text it spans (as_str, a sequence of characters) and its       *)
(* child nodes (into_inner).  A value of type Option is a sequence of      *)
(* length 0 (None) or 1 (Some).  A Result is a record tagged "Ok" or       *)
(* "Err"; a panic (unwrap on None, unreachable!, panic!) is the third      *)
(* outcome "Panic", which unwinds through every caller.  stdout is the     *)
(* standard output of the process: the lines written to it so far, each    *)
(* with the call that wrote it.  A text read by the command line tool is   *)
(* a sequence of lines.                                                    *)
(***************************************************************************)
EXTENDS Integers, Sequences, FiniteSets, TLC

VARIABLES impl, entry, st_pairs, st_pc, name, contents, i, p, st_pos,
          st_result, doc_pairs, doc_pc, preamble, content1, content2,
          doc_result, stdout, tap_file, file, stdin, fail_at, ser_fails,
          main_pc, reads, buf, content, document, exit

vars == <<impl, entry, st_pairs, st_pc, name, contents, i, p, st_pos,
          st_result, doc_pairs, doc_pc, preamble, content1, content2,
          doc_result, stdout, tap_file, file, stdin, fail_at, ser_fails,
          main_pc, reads, buf, content, document, exit>>

st_vars == <<st_pairs, st_pc, name, contents, i, p, st_pos, st_result>>

doc_vars == <<doc_pairs, doc_pc, preamble, content1, content2, doc_result>>

\* The run of the command line tool: its argument, the file at that path,
\* the standard input (a sequence of chunks, one per read), the read call
\* that fails (0: none), whether the serializer fails; then main's position,
\* the reads done on each source, the buffer, and main's locals.
main_env == <<tap_file, file, stdin, fail_at, ser_fails>>

main_vars == <<tap_file, file, stdin, fail_at, ser_fails, main_pc, reads, buf,
               content, document, exit>>

(***************************************************************************)
(* Bounds of the model.                                                    *)
(***************************************************************************)
\* Longest child sequence of the subtest node handed to Subtest::parse.
MaxChildren == 3

\* Longest statement sequence of a top-level body block.
MaxBody == 2

\* Deepest nesting of subtest nodes below a child or a body statement.
MaxDepth == 2

\* Longest text, in lines, given to the command line tool.
MaxLines == 3

(***************************************************************************)
(* Option, Result and panics.                                              *)
(***************************************************************************)
None == <<>>

Some(x) == <<x>>

Ok(v) == [tag |-> "Ok", val |-> v]

Err(e) == [tag |-> "Err", err |-> e]

Panic(m) == [tag |-> "Panic", msg |-> m]

\* Option::ok of a Result: the error, if any, is dropped.
OkOption(r) == IF r.tag = "Ok" THEN Some(r.val) ELSE None

(***************************************************************************)
(* Text: str::to_lowercase and str::parse::<i32>.                          *)
(***************************************************************************)
UpperChars == <<"A", "B", "C", "D", "E", "F", "G", "H", "I", "J", "K", "L", "M",
                "N", "O", "P", "Q", "R", "S", "T", "U", "V", "W", "X", "Y", "Z">>

LowerChars == <<"a", "b", "c", "d", "e", "f", "g", "h", "i", "j", "k", "l", "m",
                "n", "o", "p", "q", "r", "s", "t", "u", "v", "w", "x", "y", "z">>

LowerChar(c) ==
    IF \E k \in DOMAIN UpperChars : UpperChars[k] = c
    THEN LowerChars[CHOOSE k \in DOMAIN UpperChars : UpperChars[k] = c]
    ELSE c

ToLowercase(text) == [k \in DOMAIN text |-> LowerChar(text[k])]

DigitChars == <<"0", "1", "2", "3", "4", "5", "6", "7", "8", "9">>

IsDigit(c) == \E k \in DOMAIN DigitChars : DigitChars[k] = c

DigitVal(c) == (CHOOSE k \in DOMAIN DigitChars : DigitChars[k] = c) - 1

I32Max == 2147483647

I32Min == -I32Max - 1

\* The error of str::parse::<i32>, turned into an anyhow::Error by `?`: it
\* holds the kind of the failure and nothing else (neither the text parsed
\* nor the place it came from).
ParseIntError(kind) == [type |-> "ParseIntError", kind |-> kind, args |-> <<>>]

\* The digit loop of i32::from_str: checked multiplication by ten, then
\* checked addition (subtraction for a negative number) of the digit.
RECURSIVE ParseDigits(_, _, _, _)
ParseDigits(text, k, acc, neg) ==
    IF k > Len(text) THEN Ok(acc)
    ELSE IF ~IsDigit(text[k]) THEN Err(ParseIntError("InvalidDigit"))
    ELSE IF neg
         THEN IF acc < -(I32Max \div 10) THEN Err(ParseIntError("NegOverflow"))
              ELSE IF acc * 10 < I32Min + DigitVal(text[k])
                   THEN Err(ParseIntError("NegOverflow"))
                   ELSE ParseDigits(text, k + 1, acc * 10 - DigitVal(text[k]), neg)
         ELSE IF acc > I32Max \div 10 THEN Err(ParseIntError("PosOverflow"))
              ELSE IF acc * 10 > I32Max - DigitVal(text[k])
                   THEN Err(ParseIntError("PosOverflow"))
                   ELSE ParseDigits(text, k + 1, acc * 10 + DigitVal(text[k]), neg)

ParseI32(text) ==
    IF Len(text) = 0 THEN Err(ParseIntError("Empty"))
    ELSE IF text[1] \in {"+", "-"}
         THEN IF Len(text) = 1 THEN Err(ParseIntError("InvalidDigit"))
              ELSE ParseDigits(text, 2, 0, text[1] = "-")
         ELSE ParseDigits(text, 1, 0, FALSE)

(***************************************************************************)
(* Leaf builders.  `pairs` is the sequence of child nodes (Pairs).         *)
(***************************************************************************)
UnwrapNone == Panic("called Option::unwrap() on a None value")

Unreachable == Panic("internal error: entered unreachable code")

\* The panic of `contents[i]` and of Vec::remove(i) when i is no index of
\* the vector.
IndexOutOfBounds == Panic("index out of bounds")

PreambleParse(pairs) ==
    IF Len(pairs) = 0 THEN UnwrapNone
    ELSE Ok([version |-> pairs[1].text])

\* Mutant of PlanReason: a plan whose first bound is above its last is
\* turned down.
PlanReason_Ordered(pairs, first, last) ==
    IF last.tag # "Ok" THEN last
    ELSE IF first.val > last.val
         THEN Err([type |-> "anyhow", kind |-> "Plan bounds out of order", args |-> <<>>])
    ELSE Ok([first |-> first.val,
             last |-> last.val,
             reason |-> IF Len(pairs) >= 3 THEN Some(pairs[3].text) ELSE None])

\* Plan::parse from `last:` on: `first` and `last` are the outcomes of the
\* two str::parse calls; `?` returns the Err of either to the caller.
PlanReason(pairs, first, last) ==
    IF last.tag # "Ok" THEN last
    ELSE Ok([first |-> first.val,
             last |-> last.val,
             reason |-> IF Len(pairs) >= 3 THEN Some(pairs[3].text) ELSE None])

PlanLast(pairs, first) ==
    IF first.tag # "Ok" THEN first
    ELSE IF Len(pairs) = 1 THEN UnwrapNone
    ELSE PlanReason(pairs, first, ParseI32(pairs[2].text))

PlanParse(pairs) ==
    IF Len(pairs) = 0 THEN UnwrapNone
    ELSE PlanLast(pairs, ParseI32(pairs[1].text))

\* anyhow!("Directive key '{}' must be 'skip' or 'todo'", key): the message
\* holds the lower-cased key.
DirectiveKeyError(key) ==
    [type |-> "anyhow", kind |-> "Directive key {} must be skip or todo",
     args |-> <<key>>]

\* The match on the lower-cased key.
DirectiveKey(key) ==
    IF key = <<"s", "k", "i", "p">> THEN Ok("Skip")
    ELSE IF key = <<"t", "o", "d", "o">> THEN Ok("Todo")
    ELSE Err(DirectiveKeyError(key))

\* Directive::parse after the match: the Err of the match is returned by `?`.
DirectiveReason(pairs, key) ==
    IF key.tag # "Ok" THEN key
    ELSE Ok([key |-> key.val,
             reason |-> IF Len(pairs) >= 2 THEN Some(pairs[2].text) ELSE None])

\* Mutant of DirectiveParse: the key is matched as written, without
\* to_lowercase.
DirectiveParse_CaseSensitive(pairs) ==
    IF Len(pairs) = 0 THEN UnwrapNone
    ELSE DirectiveReason(pairs, DirectiveKey(pairs[1].text))

DirectiveParse(pairs) ==
    IF Len(pairs) = 0 THEN UnwrapNone
    ELSE DirectiveReason(pairs, DirectiveKey(ToLowercase(pairs[1].text)))

\* anyhow!("Result '{}' must be 'ok' or 'not ok'", pair.as_str()): the message
\* holds the result token as written.
TestResultError(text) ==
    [type |-> "anyhow", kind |-> "Result {} must be ok or not ok",
     args |-> <<text>>]

TestInit(result) ==
    [result |-> result, number |-> None, description |-> None,
     directive |-> None, yaml |-> <<>>]

\* `directive = Directive::parse(..).ok()`: an Err becomes None; a panic of
\* the directive builder unwinds.
DirectiveField(test, d) ==
    IF d.tag = "Panic" THEN d ELSE Ok([test EXCEPT !.directive = OkOption(d)])

\* Mutant of TestField: a number, description or directive already set is
\* kept, the first child of its kind winning.
TestField_FirstWins(t, pair) ==
    IF t.tag # "Ok" THEN t
    ELSE IF pair.rule = "number"
         THEN Ok([t.val EXCEPT !.number =
                    IF @ = None THEN OkOption(ParseI32(pair.text)) ELSE @])
    ELSE IF pair.rule = "description"
         THEN Ok([t.val EXCEPT !.description =
                    IF @ = None THEN Some(pair.text) ELSE @])
    ELSE IF pair.rule = "directive"
         THEN IF t.val.directive = None
              THEN DirectiveField(t.val, DirectiveParse(pair.inner))
              ELSE t
    ELSE IF pair.rule = "yaml_block"
         THEN Ok([t.val EXCEPT
                    !.yaml = @ \o [k \in DOMAIN pair.inner |-> pair.inner[k].text]])
    ELSE Unreachable

\* Mutant of TestField: a yaml block replaces the lines collected so far,
\* the way the other fields are overwritten.
TestField_YamlReplaced(t, pair) ==
    IF t.tag # "Ok" THEN t
    ELSE IF pair.rule = "number"
         THEN Ok([t.val EXCEPT !.number = OkOption(ParseI32(pair.text))])
    ELSE IF pair.rule = "description"
         THEN Ok([t.val EXCEPT !.description = Some(pair.text)])
    ELSE IF pair.rule = "directive"
         THEN DirectiveField(t.val, DirectiveParse(pair.inner))
    ELSE IF pair.rule = "yaml_block"
         THEN Ok([t.val EXCEPT
                    !.yaml = [k \in DOMAIN pair.inner |-> pair.inner[k].text]])
    ELSE Unreachable

\* One iteration of `for pair in pairs` of Test::parse / parse_test: `t` is
\* the outcome so far (Ok of the fields, or the panic of an earlier
\* iteration).
TestField(t, pair) ==
    IF t.tag # "Ok" THEN t
    ELSE IF pair.rule = "number"
         THEN Ok([t.val EXCEPT !.number = OkOption(ParseI32(pair.text))])
    ELSE IF pair.rule = "description"
         THEN Ok([t.val EXCEPT !.description = Some(pair.text)])
    ELSE IF pair.rule = "directive"
         THEN DirectiveField(t.val, DirectiveParse(pair.inner))
    ELSE IF pair.rule = "yaml_block"
         THEN Ok([t.val EXCEPT
                    !.yaml = @ \o [k \in DOMAIN pair.inner |-> pair.inner[k].text]])
    ELSE Unreachable

RECURSIVE TestFields(_, _, _)
TestFields(t, pairs, k) ==
    IF k > Len(pairs) THEN t ELSE TestFields(TestField(t, pairs[k]), pairs, k + 1)

\* Mutant of TestResult: the result token is matched as written.
TestResult_CaseSensitive(pair) ==
    IF pair.text = <<"o", "k">> THEN Ok(TRUE)
    ELSE IF pair.text = <<"n", "o", "t", " ", "o", "k">> THEN Ok(FALSE)
    ELSE Err(TestResultError(pair.text))

\* The match on the lower-cased result token.
TestResult(pair) ==
    IF ToLowercase(pair.text) = <<"o", "k">> THEN Ok(TRUE)
    ELSE IF ToLowercase(pair.text) = <<"n", "o", "t", " ", "o", "k">> THEN Ok(FALSE)
    ELSE Err(TestResultError(pair.text))

\* Test::parse after the match on the result: its Err is returned by `?`.
TestAfterResult(pairs, result) ==
    IF result.tag # "Ok" THEN result
    ELSE TestFields(Ok(TestInit(result.val)), pairs, 2)

TestParse(pairs) ==
    IF Len(pairs) = 0 THEN UnwrapNone
    ELSE TestAfterResult(pairs, TestResult(pairs[1]))

BailOutParse(pairs) ==
    Ok([reason |-> IF Len(pairs) >= 1 THEN Some(pairs[1].text) ELSE None])

\* Pragma::parse of the library reads an optional flag and the option;
\* parse_pragma of the command line tool keeps the first token as `key`.
PragmaParse(im, pairs) ==
    IF Len(pairs) = 0 THEN UnwrapNone
    ELSE IF im = "cli" THEN Ok([key |-> pairs[1].text])
    ELSE IF pairs[1].rule = "flag"
         THEN IF pairs[1].text \notin {<<"+">>, <<"-">>} THEN Unreachable
              ELSE IF Len(pairs) = 1 THEN UnwrapNone
              ELSE Ok([flag |-> Some(pairs[1].text = <<"+">>),
                       option |-> pairs[2].text])
         ELSE Ok([flag |-> None, option |-> pairs[1].text])

(***************************************************************************)
(* Statement dispatcher and Subtest resolver (mutually recursive).         *)
(***************************************************************************)
\* Result::map with an enum constructor: tags the value of an Ok.
MapOk(r, kind) == IF r.tag = "Ok" THEN Ok([kind |-> kind, val |-> r.val]) ELSE r

RECURSIVE StatementParse(_, _)
RECURSIVE SubtestParse(_, _)

\* Mutant of Classify: the command line tool has no plan arm, and hands
\* every child node to the dispatcher.
Classify_CliWithoutPlanArm(im, pair) ==
    IF pair.rule = "plan" /\ im = "lib" THEN MapOk(PlanParse(pair.inner), "Plan")
    ELSE MapOk(StatementParse(im, pair), "Statement")

\* The closure of Subtest::parse that turns one child node into a
\* SubtestContent: a plan node into Plan, anything else through the
\* dispatcher into Statement.
Classify(im, pair) ==
    IF pair.rule = "plan" THEN MapOk(PlanParse(pair.inner), "Plan")
    ELSE MapOk(StatementParse(im, pair), "Statement")

\* Mutant of SubtestName: the text of the first child node is taken as the
\* name without a look at its tag.
SubtestName_Always(pair) == Some(pair.text)

\* `if first.as_rule() == Rule::name { Some(..) } else { None }`.
SubtestName(pair) == IF pair.rule = "name" THEN Some(pair.text) ELSE None

\* Mutant of FirstContents: the first child node is taken to be the name
\* whatever it is, and is never put into the contents.
FirstContents_Dropped(im, pair, nm) == Ok(<<>>)

\* "Consume first pair if not consumed by 'name'": the contents after the
\* first child node has been looked at.
\* `contents.push(..?)` on the empty contents: c is the outcome of the
\* classification.
PushFirst(c) == IF c.tag = "Ok" THEN Ok(<<c.val>>) ELSE c

FirstContents(im, pair, nm) ==
    IF nm = None THEN PushFirst(Classify(im, pair)) ELSE Ok(<<>>)

\* The map/collect over the remaining child nodes, in order; the first node
\* that does not build ends it (collect into Result stops at the first Err,
\* a panic unwinds), and the nodes after it are not built.
RECURSIVE CollectContents(_, _, _, _)
CollectOne(im, pairs, k, acc, c) ==
    IF c.tag = "Ok" THEN CollectContents(im, pairs, k + 1, Append(acc, c.val)) ELSE c

CollectContents(im, pairs, k, acc) ==
    IF k > Len(pairs) THEN Ok(acc)
    ELSE CollectOne(im, pairs, k, acc, Classify(im, pairs[k]))

\* Vec::remove(k), k counted from 0: the later elements shift left.
VecRemove(v, k) == [j \in 1..(Len(v) - 1) |-> IF j <= k THEN v[j] ELSE v[j + 1]]

\* Vec::swap_remove(k), k counted from 0: the last element takes the place
\* of the one removed.
VecSwapRemove(v, k) ==
    [j \in 1..(Len(v) - 1) |-> IF j = k + 1 THEN v[Len(v)] ELSE v[j]]

\* Mutant of ScanStep: the Plan is taken out with swap_remove, which does
\* not keep the order of the elements left.
ScanStep_SwapRemove(c, idx, pl) ==
    IF c[idx + 1].kind = "Plan"
    THEN [contents |-> VecSwapRemove(c, idx), i |-> idx + 1,
          p |-> Some(c[idx + 1].val), panic |-> FALSE, oob |-> FALSE]
    ELSE [contents |-> c, i |-> idx + 1, p |-> pl, panic |-> FALSE, oob |-> FALSE]

\* Mutant of ScanFound: a Plan found is kept only when none was found
\* before it.
ScanFound_KeepFirst(pl, removed) == IF pl = None THEN Some(removed.val) ELSE pl

\* `p = Some(match contents.remove(i) { Plan(p) => p, .. })`: the Plan
\* removed takes the place of the one found before.
ScanFound(pl, removed) == Some(removed.val)

\* Mutant of ScanCondition: the loop goes on while i <= contents.len().
ScanCondition_Inclusive(c, idx) == idx <= Len(c)

\* `i < contents.len()`, the condition of the loop.
ScanCondition(c, idx) == idx < Len(c)

\* One iteration of the loop: `contents[i]` panics if idx is no index of
\* the contents (oob); a Plan at idx is removed and becomes p; idx is
\* incremented either way.  The unreachable!() arm would be taken if the
\* element removed were a Statement.
ScanStep(c, idx, pl) ==
    IF ~(idx < Len(c))
    THEN [contents |-> c, i |-> idx, p |-> pl, panic |-> TRUE, oob |-> TRUE]
    ELSE IF c[idx + 1].kind = "Plan"
    THEN LET removed == c[idx + 1] IN
         [contents |-> VecRemove(c, idx), i |-> idx + 1,
          p |-> IF removed.kind = "Plan" THEN ScanFound(pl, removed) ELSE pl,
          panic |-> removed.kind # "Plan", oob |-> FALSE]
    ELSE [contents |-> c, i |-> idx + 1, p |-> pl, panic |-> FALSE, oob |-> FALSE]

\* The whole loop: the state [contents, i, p] it ends in.
RECURSIVE ScanLoop(_, _, _)
ScanNext(s) == IF s.panic THEN s ELSE ScanLoop(s.contents, s.i, s.p)

ScanLoop(c, idx, pl) ==
    IF ScanCondition(c, idx)
    THEN ScanNext(ScanStep(c, idx, pl))
    ELSE [contents |-> c, i |-> idx, p |-> pl, panic |-> FALSE, oob |-> FALSE]

\* filter_map over the contents left after the scan: the Statements, in
\* order; a Plan still among them is dropped.
RECURSIVE BodyOf(_)
BodyOf(c) ==
    IF Len(c) = 0 THEN <<>>
    ELSE IF c[1].kind = "Statement" THEN <<c[1].val>> \o BodyOf(Tail(c))
         ELSE BodyOf(Tail(c))

\* Mutant of SubtestFinishValue: the plan of a Subtest nested in the body
\* takes the place of the plan found by the scan.
SubtestFinishValue_InnerPlan(nm, c, pl) ==
    IF pl = None THEN UnwrapNone
    ELSE LET inner == SelectSeq(BodyOf(c), LAMBDA s : s.kind = "Subtest") IN
         Ok([name |-> nm,
             plan |-> IF Len(inner) > 0 THEN inner[1].val.plan ELSE pl[1],
             body |-> BodyOf(c)])

\* After the loop: `p.unwrap()`, the body, and the Ok value.
SubtestFinishValue(nm, c, pl) ==
    IF pl = None THEN UnwrapNone
    ELSE Ok([name |-> nm, plan |-> pl[1], body |-> BodyOf(c)])

\* The outcome of Subtest::parse once the loop has ended in state s.
SubtestAfterScan(nm, s) ==
    IF s.panic THEN (IF s.oob THEN IndexOutOfBounds ELSE Unreachable)
    ELSE SubtestFinishValue(nm, s.contents, s.p)

\* Subtest::parse from the scan on: `all` is the outcome of collecting the
\* contents.
SubtestScanOf(nm, all) ==
    IF all.tag # "Ok" THEN all
    ELSE SubtestAfterScan(nm, ScanLoop(all.val, 0, None))

\* Subtest::parse from "the rest of the pairs" on: `first` is the outcome of
\* the first node.
SubtestRestOf(im, pairs, first) ==
    IF first.tag # "Ok" THEN first
    ELSE SubtestScanOf(SubtestName(pairs[1]), CollectContents(im, pairs, 2, first.val))

SubtestParse(im, pairs) ==
    IF Len(pairs) = 0 THEN UnwrapNone
    ELSE SubtestRestOf(im, pairs, FirstContents(im, pairs[1], SubtestName(pairs[1])))

\* Mutant of StatementParse: without a pragma arm of its own, a pragma node
\* is kept as diagnostic text.
StatementParse_PragmaAsAnything(im, pair) ==
    IF pair.rule = "test" THEN MapOk(TestParse(pair.inner), "Test")
    ELSE IF pair.rule = "bail_out" THEN MapOk(BailOutParse(pair.inner), "BailOut")
    ELSE IF pair.rule = "subtest" THEN MapOk(SubtestParse(im, pair.inner), "Subtest")
    ELSE IF pair.rule \in {"anything", "pragma"}
         THEN Ok([kind |-> "Anything", val |-> [text |-> pair.text]])
    ELSE Unreachable

\* Statement::parse (lib) and parse_statement (cli).
StatementParse(im, pair) ==
    IF pair.rule = "test" THEN MapOk(TestParse(pair.inner), "Test")
    ELSE IF pair.rule = "bail_out" THEN MapOk(BailOutParse(pair.inner), "BailOut")
    ELSE IF pair.rule = "pragma" THEN MapOk(PragmaParse(im, pair.inner), "Pragma")
    ELSE IF pair.rule = "subtest" THEN MapOk(SubtestParse(im, pair.inner), "Subtest")
    ELSE IF pair.rule = "anything" THEN Ok([kind |-> "Anything", val |-> [text |-> pair.text]])
    ELSE Unreachable

(***************************************************************************)
(* What the builders write to the standard output while they build.        *)
(***************************************************************************)
\* `println!("{}", pair.as_str())` of Pragma::parse, in the Rule::flag arm,
\* before the flag is matched; parse_pragma of the command line tool has no
\* such line.
PragmaPrints(im, pairs) ==
    IF im = "lib" /\ Len(pairs) > 0 /\ pairs[1].rule = "flag"
    THEN <<pairs[1].text>>
    ELSE <<>>

RECURSIVE StatementPrints(_, _)
RECURSIVE ContentsPrints(_, _, _)

\* The lines written while one child node of a subtest is classified.
ClassifyPrints(im, pair) ==
    IF pair.rule = "plan" THEN <<>> ELSE StatementPrints(im, pair)

\* The lines written while the child nodes from the k-th on are built, in
\* order: the nodes after the first that does not build are not built.
ContentsPrints(im, pairs, k) ==
    IF k > Len(pairs) THEN <<>>
    ELSE ClassifyPrints(im, pairs[k])
            \o (IF Classify(im, pairs[k]).tag = "Ok"
                THEN ContentsPrints(im, pairs, k + 1)
                ELSE <<>>)

\* The lines written by Subtest::parse: a name token is not built.
SubtestPrints(im, pairs) ==
    IF Len(pairs) = 0 THEN <<>>
    ELSE ContentsPrints(im, pairs, IF pairs[1].rule = "name" THEN 2 ELSE 1)

StatementPrints(im, pair) ==
    IF pair.rule = "pragma" THEN PragmaPrints(im, pair.inner)
    ELSE IF pair.rule = "subtest" THEN SubtestPrints(im, pair.inner)
    ELSE <<>>

\* The lines written while the statements of a body block from the k-th on
\* are built.
RECURSIVE StatementsPrints(_, _, _)
StatementsPrints(im, pairs, k) ==
    IF k > Len(pairs) THEN <<>>
    ELSE StatementPrints(im, pairs[k])
            \o (IF StatementParse(im, pairs[k]).tag = "Ok"
                THEN StatementsPrints(im, pairs, k + 1)
                ELSE <<>>)

DocumentContentPrints(im, pair) ==
    IF pair.rule = "body" THEN StatementsPrints(im, pair.inner, 1) ELSE <<>>

(***************************************************************************)
(* Document assembler.                                                     *)
(***************************************************************************)
\* `.map(Statement::parse).collect()` into Result<Vec<_>>.
RECURSIVE CollectStatements(_, _, _, _)
CollectStatement(im, pairs, k, acc, s) ==
    IF s.tag = "Ok" THEN CollectStatements(im, pairs, k + 1, Append(acc, s.val)) ELSE s

CollectStatements(im, pairs, k, acc) ==
    IF k > Len(pairs) THEN Ok(acc)
    ELSE CollectStatement(im, pairs, k, acc, StatementParse(im, pairs[k]))

DocumentContentParse(im, pair) ==
    IF pair.rule = "plan" THEN MapOk(PlanParse(pair.inner), "Plan")
    ELSE IF pair.rule = "body"
         THEN MapOk(CollectStatements(im, pair.inner, 1, <<>>), "Body")
         ELSE Unreachable

\* Mutant of SplitContents: only the order plan, body is matched.
SplitContents_PlanFirstOnly(im, c1, c2) ==
    IF c1.kind = "Plan" /\ c2.kind = "Body" THEN Ok([plan |-> c1.val, body |-> c2.val])
    ELSE Unreachable

\* The match of Document::parse on (content1, content2), and split_contents
\* of the command line tool: the pair (plan, body), or a panic.
SplitContents(im, c1, c2) ==
    IF c1.kind = "Plan" /\ c2.kind = "Body" THEN Ok([plan |-> c1.val, body |-> c2.val])
    ELSE IF c1.kind = "Body" /\ c2.kind = "Plan"
         THEN Ok([plan |-> c2.val, body |-> c1.val])
    ELSE IF im = "lib" THEN Unreachable
    ELSE IF c1.kind = "Plan" THEN Panic("Unexpected double body")
    ELSE Panic("Unexpected double plan")

DocumentValue(pre, split) ==
    IF split.tag # "Ok" THEN split
    ELSE Ok([preamble |-> pre, plan |-> split.val.plan, body |-> split.val.body])

\* Document::parse from the match on: c1 and c2 are the outcomes of the two
\* DocumentContent::parse calls.
DocumentMatch(im, pre, c1, c2) ==
    IF c2.tag # "Ok" THEN c2
    ELSE DocumentValue(pre.val, SplitContents(im, c1.val, c2.val))

DocumentContent2(im, pairs, pre, c1) ==
    IF c1.tag # "Ok" THEN c1
    ELSE IF Len(pairs) = 2 THEN UnwrapNone
    ELSE DocumentMatch(im, pre, c1, DocumentContentParse(im, pairs[3]))

DocumentContent1(im, pairs, pre) ==
    IF pre.tag # "Ok" THEN pre
    ELSE IF Len(pairs) = 1 THEN UnwrapNone
    ELSE DocumentContent2(im, pairs, pre, DocumentContentParse(im, pairs[2]))

\* Document::parse (lib) and the Rule::document arm of parse_document (cli),
\* on the child nodes of the document node.
DocumentParse(im, pairs) ==
    IF Len(pairs) = 0 THEN UnwrapNone
    ELSE DocumentContent1(im, pairs, PreambleParse(pairs[1].inner))

(***************************************************************************)
(* Parse trees handed to the builders.                                     *)
(***************************************************************************)
Tok(rule, text) == [rule |-> rule, text |-> text, inner |-> <<>>]

Node(rule, inner) == [rule |-> rule, text |-> <<>>, inner |-> inner]

\* 2147483648 = i32::MAX + 1: digits only, yet no i32.
TooBig == <<"2", "1", "4", "7", "4", "8", "3", "6", "4", "8">>

PlanA == Node("plan", <<Tok("first", <<"1">>), Tok("last", <<"1">>)>>)

PlanB == Node("plan", <<Tok("first", <<"1">>), Tok("last", <<"2">>),
                        Tok("reason", <<"T", "B", "D">>)>>)

PlanBadFirst == Node("plan", <<Tok("first", TooBig), Tok("last", <<"1">>)>>)

PlanBadLast == Node("plan", <<Tok("first", <<"1">>), Tok("last", TooBig)>>)

\* The first bound above the last, the last zero.
PlanDescending == Node("plan", <<Tok("first", <<"2">>), Tok("last", <<"0">>)>>)

\* Signed bounds, and a reason in mixed case.
PlanSigned == Node("plan", <<Tok("first", <<"+", "7">>), Tok("last", <<"-", "3">>),
                             Tok("reason", <<"W", "h", "y">>)>>)

TestOk == Node("test", <<Tok("result", <<"o", "k">>), Tok("number", <<"1">>),
                         Tok("description", <<"x">>)>>)

TestSkip ==
    Node("test", <<Tok("result", <<"N", "o", "t", " ", "O", "K">>),
                   Node("directive", <<Tok("key", <<"S", "K", "I", "P">>),
                                       Tok("reason", <<"w", "h", "y">>)>>),
                   Node("yaml_block", <<Tok("yaml", <<"a">>), Tok("yaml", <<"b">>)>>)>>)

TestBadNumber == Node("test", <<Tok("result", <<"o", "k">>), Tok("number", TooBig)>>)

TestBadKey ==
    Node("test", <<Tok("result", <<"o", "k">>), Tok("number", <<"2">>),
                   Node("directive", <<Tok("key", <<"f", "o", "o">>)>>)>>)

AnythingNode == Tok("anything", <<"h", "i">>)

BailOutNode == Node("bail_out", <<Tok("reason", <<"f", "u", "l", "l">>)>>)

PragmaNode == Node("pragma", <<Tok("flag", <<"+">>), Tok("option", <<"s">>)>>)

PragmaMinus == Node("pragma", <<Tok("flag", <<"-">>), Tok("option", <<"s">>)>>)

PragmaNoFlag == Node("pragma", <<Tok("option", <<"a">>)>>)

\* Two yaml blocks and an empty one, with a description between them.
TestYaml ==
    Node("test", <<Tok("result", <<"o", "k">>),
                   Node("yaml_block", <<Tok("yaml", <<"b">>), Tok("yaml", <<"a">>)>>),
                   Tok("description", <<"x">>),
                   Node("yaml_block", <<>>),
                   Node("yaml_block", <<Tok("yaml", <<"c">>)>>)>>)

TestTodo ==
    Node("test", <<Tok("result", <<"O", "k">>),
                   Node("directive", <<Tok("key", <<"T", "o", "D", "o">>)>>)>>)

TestSkipMixed ==
    Node("test", <<Tok("result", <<"n", "o", "t", " ", "o", "k">>),
                   Node("directive", <<Tok("key", <<"S", "k", "i", "p">>),
                                       Tok("reason", <<"w", "h", "y">>)>>)>>)

\* A result token that is neither "ok" nor "not ok".
TestBadResult ==
    Node("test", <<Tok("result", <<"o", "k", "a", "y">>), Tok("number", <<"1">>)>>)

\* Two number, two description and two directive children.
TestDouble ==
    Node("test", <<Tok("result", <<"o", "k">>),
                   Tok("number", <<"1">>),
                   Tok("description", <<"x">>),
                   Node("directive", <<Tok("key", <<"S", "K", "I", "P">>),
                                       Tok("reason", <<"w", "h", "y">>)>>),
                   Tok("number", <<"2">>),
                   Tok("description", <<"y">>),
                   Node("directive", <<Tok("key", <<"t", "o", "d", "o">>)>>)>>)

\* As TestDouble, the second number and the second directive not building.
TestDoubleBad ==
    Node("test", <<Tok("result", <<"o", "k">>),
                   Tok("number", <<"1">>),
                   Node("directive", <<Tok("key", <<"s", "k", "i", "p">>)>>),
                   Tok("number", TooBig),
                   Node("directive", <<Tok("key", <<"f", "o", "o">>)>>)>>)

NameTok == Tok("name", <<"f", "o", "o">>)

\* Subtest nodes nested at most d deep: with a plan after its statement,
\* without any plan, and a named one around each subtest one level less deep.
RECURSIVE SubtestNodes(_)
SubtestNodes(d) ==
    IF d = 0 THEN {}
    ELSE {Node("subtest", <<TestOk, PlanB>>), Node("subtest", <<AnythingNode>>)}
         \cup {Node("subtest", <<NameTok, n, PlanA>>) : n \in SubtestNodes(d - 1)}

PlanNodes == {PlanA, PlanB, PlanBadFirst, PlanBadLast, PlanDescending, PlanSigned}

StatementNodes ==
    {TestOk, TestSkip, TestBadNumber, TestBadKey, AnythingNode, BailOutNode,
     PragmaNode, PragmaMinus, PragmaNoFlag, TestYaml, TestTodo, TestSkipMixed,
     TestBadResult, TestDouble, TestDoubleBad} \cup SubtestNodes(MaxDepth)

\* The nodes every input may repeat; of the others an input holds at most one.
CommonNodes == {PlanA, PlanB, TestOk, AnythingNode}

SeqsUpTo(S, n) == UNION {[1..m -> S] : m \in 0..n}

AtMostOneSpecial(s) ==
    \A j, k \in DOMAIN s : j # k => s[j] \in CommonNodes \/ s[k] \in CommonNodes

\* Nodes that do not build, or hold a node that does not.
FailingNodes ==
    {PlanBadFirst, PlanBadLast, TestBadResult, TestBadKey, TestBadNumber,
     Node("subtest", <<AnythingNode>>), Node("subtest", <<TestBadResult, PlanBadLast>>)}

\* Two of them, and a plan after them.
TwoFailures == {<<a, b, PlanA>> : a, b \in FailingNodes}

\* The child nodes of a subtest node, at least one: an optional name token,
\* then plan and statement nodes in any order.
SubtestInputs ==
    ({pre \o s : pre \in {<<>>, <<NameTok>>},
                 s \in {t \in SeqsUpTo(PlanNodes \cup StatementNodes, MaxChildren) :
                          AtMostOneSpecial(t)}}
        \ {<<>>})
    \cup TwoFailures

BodyNodes ==
    {Node("body", s) : s \in {t \in SeqsUpTo(StatementNodes, MaxBody) :
                                AtMostOneSpecial(t)}}

PreambleNode == Node("preamble", <<Tok("version", <<"1", "4">>)>>)

\* The child nodes of a document node: the preamble and two content
\* blocks, each a plan or a body; two bodies are of one statement at most.
DocumentInputs ==
    {<<PreambleNode, b[1], b[2]>> :
        b \in {c \in (PlanNodes \cup BodyNodes) \X (PlanNodes \cup BodyNodes) :
                 \/ c[1].rule = "plan"
                 \/ c[2].rule = "plan"
                 \/ Len(c[1].inner) <= 1 /\ Len(c[2].inner) <= 1}}

Impls == {"lib", "cli"}

\* Two calls running at the same time (one of Subtest::parse on one thread,
\* one of Document::parse on another) are given inputs of these nodes.
ConcurrentNodes == {PlanA, TestOk, PragmaNode, PragmaNoFlag}

ConcurrentSubtestInputs ==
    {s \in SubtestInputs :
        Len(s) <= 2 /\ \A k \in DOMAIN s : s[k] \in ConcurrentNodes}

ConcurrentDocumentInputs ==
    {d \in DocumentInputs :
        \A k \in 2..3 :
            \/ d[k] = PlanA
            \/ /\ d[k].rule = "body"
               /\ Len(d[k].inner) > 0
               /\ \A j \in DOMAIN d[k].inner : d[k].inner[j] \in ConcurrentNodes}

(***************************************************************************)
(* The command line tool (main.rs): the grammar it calls, its entry point  *)
(* and the texts it is given.                                              *)
(***************************************************************************)
\* The lines of the texts: the preamble, a plan, a plan whose last bound is
\* no i32, a test, and the opening of a yaml block that is never closed.
CliLines == {"TAP version 14", "1..1", "1..2147483648", "ok 1 - x", "---"}

IsPlanLine(line) == line \in {"1..1", "1..2147483648"}

IsStatementLine(line) == line = "ok 1 - x"

\* The parse node the grammar gives for a plan or statement line.
LineNode(line) ==
    CASE line = "1..1" -> PlanA
      [] line = "1..2147483648" -> PlanBadLast
      [] line = "ok 1 - x" -> TestOk

GrammarBody(lines) == Node("body", [k \in DOMAIN lines |-> LineNode(lines[k])])

GrammarError == Err([type |-> "pest", kind |-> "ParsingError", args |-> <<>>])

\* TAPParser::parse(Rule::document, content): a grammar error, or the one
\* document node: the preamble, then a plan and a body of one or more
\* statements, in either order.
TAPParserParse(text) ==
    IF Len(text) < 3 \/ text[1] # "TAP version 14" THEN GrammarError
    ELSE IF /\ IsPlanLine(text[2])
            /\ \A k \in 3..Len(text) : IsStatementLine(text[k])
         THEN Ok(<<Node("document", <<PreambleNode, LineNode(text[2]),
                                      GrammarBody(SubSeq(text, 3, Len(text)))>>)>>)
    ELSE IF /\ IsPlanLine(text[Len(text)])
            /\ \A k \in 2..(Len(text) - 1) : IsStatementLine(text[k])
         THEN Ok(<<Node("document", <<PreambleNode,
                                      GrammarBody(SubSeq(text, 2, Len(text) - 1)),
                                      LineNode(text[Len(text)])>>)>>)
    ELSE GrammarError

\* anyhow!("Unexpected '{}'", pair.as_str()).
UnexpectedError(pair) ==
    Err([type |-> "anyhow", kind |-> "Unexpected {}", args |-> <<pair.text>>])

\* parse_document: the builder on the children of a document node.
ParseDocument(pair) ==
    IF pair.rule = "document" THEN DocumentParse("cli", pair.inner)
    ELSE UnexpectedError(pair)

\* Result::map(Some).
MapSome(r) == IF r.tag = "Ok" THEN Ok(Some(r.val)) ELSE r

\* parse_document_from_str after the grammar has run with outcome g: its
\* Err is returned by `?`; without a first pair the outcome is Ok(None).
ParseFirstPair(g) ==
    IF g.tag # "Ok" THEN g
    ELSE IF Len(g.val) > 0 THEN MapSome(ParseDocument(g.val[1]))
    ELSE Ok(None)

ParseDocumentFromStr(text) == ParseFirstPair(TAPParserParse(text))

\* Mutant of Expect: an Err is dropped (as by .ok().flatten()) and the run
\* goes on with nothing.
Expect_ErrDropped(r, msg) == IF r.tag = "Err" THEN Ok(None) ELSE r

\* Result::expect: the value of an Ok; an Err panics with the message.
Expect(r, msg) == IF r.tag = "Err" THEN Panic(msg) ELSE r

\* serde_json::to_string_pretty: the JSON text of the document, or the
\* serializer's error.
ToStringPretty(doc, fails) ==
    IF fails THEN Err([type |-> "serde_json", kind |-> "Error", args |-> <<>>])
    ELSE Ok([json |-> doc])

\* What is left of the stream after n reads.
StreamRest(stream, n) == SubSeq(stream, n + 1, Len(stream))

\* Mutant of AtEndOfStream: one read that returned something is taken for
\* the whole input (read instead of read_to_string).
AtEndOfStream_AfterOneRead(buffer, rest) == rest = <<>> \/ buffer # <<>>

\* read_to_string goes on reading until a read finds the end of the stream.
AtEndOfStream(buffer, rest) == rest = <<>>

RECURSIVE Flatten(_)
Flatten(chunks) ==
    IF Len(chunks) = 0 THEN <<>> ELSE chunks[1] \o Flatten(Tail(chunks))

MainContents == SeqsUpTo(CliLines, MaxLines)

\* What the source the tool does not read holds.
OtherContents == {<<>>, <<"TAP version 14", "ok 1 - x", "1..1">>}

\* The ways a text arrives on the standard input: in one read or in two.
Chunkings(text) ==
    {IF Len(text) = 0 THEN <<>> ELSE <<text>>}
        \cup {<<SubSeq(text, 1, j), SubSeq(text, j + 1, Len(text))>> :
                 j \in 1..(Len(text) - 1)}

MainIdle ==
    /\ tap_file = None /\ file = <<>> /\ stdin = <<>> /\ fail_at = 0
    /\ ser_fails = FALSE /\ main_pc = "idle"
    /\ reads = [file |-> 0, stdin |-> 0] /\ buf = <<>>
    /\ content = None /\ document = None /\ exit = None

\* main is entered: with a FILE argument the text is in the file, without
\* one it comes on the standard input.
MainInit ==
    /\ main_pc = "read" /\ reads = [file |-> 0, stdin |-> 0] /\ buf = <<>>
    /\ content = None /\ document = None /\ exit = None
    /\ ser_fails \in BOOLEAN
    /\ \E text \in MainContents, other \in OtherContents :
          \/ /\ tap_file = Some("f")
             /\ file = text
             /\ stdin = (IF Len(other) = 0 THEN <<>> ELSE <<other>>)
             /\ fail_at \in 0..1
          \/ /\ tap_file = None
             /\ file = other
             /\ stdin \in Chunkings(text)
             /\ fail_at \in 0..(Len(stdin) + 1)

(***************************************************************************)
(* The state machine: one call of Subtest::parse / parse_subtest or of     *)
(* Document::parse / parse_document, taken step by step.                   *)
(***************************************************************************)
StIdle ==
    /\ st_pairs = <<>> /\ st_pc = "idle" /\ name = None /\ contents = <<>>
    /\ i = 0 /\ p = None /\ st_pos = 1 /\ st_result = None

DocIdle ==
    /\ doc_pairs = <<>> /\ doc_pc = "idle" /\ preamble = None
    /\ content1 = None /\ content2 = None /\ doc_result = None

\* The call `by` writes the lines to the standard output.
Println(by, lines) ==
    stdout' = stdout \o [k \in DOMAIN lines |-> [by |-> by, line |-> lines[k]]]

Init ==
    /\ impl \in Impls
    /\ stdout = <<>>
    /\ \/ /\ entry = "Subtest"
          /\ st_pairs \in SubtestInputs
          /\ st_pc = "first" /\ name = None /\ contents = <<>>
          /\ i = 0 /\ p = None /\ st_pos = 1 /\ st_result = None
          /\ DocIdle
          /\ MainIdle
       \/ /\ entry = "Document"
          /\ doc_pairs \in DocumentInputs
          /\ doc_pc = "preamble" /\ preamble = None
          /\ content1 = None /\ content2 = None /\ doc_result = None
          /\ StIdle
          /\ MainIdle
       \/ /\ entry = "Both"
          /\ st_pairs \in ConcurrentSubtestInputs
          /\ st_pc = "first" /\ name = None /\ contents = <<>>
          /\ i = 0 /\ p = None /\ st_pos = 1 /\ st_result = None
          /\ doc_pairs \in ConcurrentDocumentInputs
          /\ doc_pc = "preamble" /\ preamble = None
          /\ content1 = None /\ content2 = None /\ doc_result = None
          /\ MainIdle
       \/ /\ entry = "Main"
          /\ impl = "cli"
          /\ MainInit
          /\ StIdle
          /\ DocIdle

\* Subtest::parse returns (or unwinds) with outcome r.
StReturn(r) ==
    /\ st_pc' = "done"
    /\ st_result' = Some(r)

\* `pairs.next().unwrap()`, the name, and the first node if it is no name.
SubtestFirst ==
    /\ st_pc = "first"
    /\ IF Len(st_pairs) = 0
       THEN /\ StReturn(UnwrapNone)
            /\ UNCHANGED <<name, contents, st_pos, stdout>>
       ELSE LET nm == SubtestName(st_pairs[1])
                first == FirstContents(impl, st_pairs[1], nm)
            IN /\ name' = nm
               /\ Println("Subtest", IF nm = None
                                     THEN ClassifyPrints(impl, st_pairs[1])
                                     ELSE <<>>)
               /\ st_pos' = 2
               /\ IF first.tag = "Ok"
                  THEN /\ contents' = first.val
                       /\ st_pc' = "rest"
                       /\ UNCHANGED st_result
                  ELSE /\ StReturn(first)
                       /\ UNCHANGED contents
    /\ UNCHANGED <<impl, entry, st_pairs, i, p>>
    /\ UNCHANGED doc_vars
    /\ UNCHANGED main_vars

\* One node of "the rest of the pairs" is built and collected; after the
\* last one the scan starts with p = None and i = 0.
SubtestRest ==
    /\ st_pc = "rest"
    /\ IF st_pos > Len(st_pairs)
       THEN /\ st_pc' = "scan"
            /\ i' = 0
            /\ p' = None
            /\ UNCHANGED <<contents, st_pos, st_result, stdout>>
       ELSE LET c == Classify(impl, st_pairs[st_pos]) IN
            /\ st_pos' = st_pos + 1
            /\ Println("Subtest", ClassifyPrints(impl, st_pairs[st_pos]))
            /\ IF c.tag = "Ok"
               THEN /\ contents' = Append(contents, c.val)
                    /\ UNCHANGED <<st_pc, st_result>>
               ELSE /\ StReturn(c)
                    /\ UNCHANGED contents
            /\ UNCHANGED <<i, p>>
    /\ UNCHANGED <<impl, entry, st_pairs, name>>
    /\ UNCHANGED doc_vars
    /\ UNCHANGED main_vars

\* Mutant of SubtestScan: `i += 1` stands inside the `if`, after the
\* removal, so that an iteration on a Statement changes nothing.
SubtestScan_IncrementInsideIf ==
    /\ st_pc = "scan"
    /\ i < Len(contents)
    /\ IF contents[i + 1].kind = "Plan"
       THEN /\ contents' = VecRemove(contents, i)
            /\ i' = i + 1
            /\ p' = Some(contents[i + 1].val)
       ELSE UNCHANGED <<contents, i, p>>
    /\ UNCHANGED <<impl, entry, st_pairs, name, st_pos, st_pc, st_result, stdout>>
    /\ UNCHANGED doc_vars
    /\ UNCHANGED main_vars

\* One iteration of the scan loop.
SubtestScan ==
    /\ st_pc = "scan"
    /\ ScanCondition(contents, i)
    /\ LET s == ScanStep(contents, i, p) IN
       /\ contents' = s.contents
       /\ i' = s.i
       /\ p' = s.p
       /\ IF s.panic
          THEN StReturn(IF s.oob THEN IndexOutOfBounds ELSE Unreachable)
          ELSE UNCHANGED <<st_pc, st_result>>
    /\ UNCHANGED <<impl, entry, st_pairs, name, st_pos, stdout>>
    /\ UNCHANGED doc_vars
    /\ UNCHANGED main_vars

\* The loop has ended: unwrap the plan, filter the body, return.
SubtestFinish ==
    /\ st_pc = "scan"
    /\ ~ScanCondition(contents, i)
    /\ StReturn(SubtestFinishValue(name, contents, p))
    /\ UNCHANGED <<impl, entry, st_pairs, name, contents, i, p, st_pos, stdout>>
    /\ UNCHANGED doc_vars
    /\ UNCHANGED main_vars

\* Document::parse returns (or unwinds) with outcome r.
DocReturn(r) ==
    /\ doc_pc' = "done"
    /\ doc_result' = Some(r)

DocPreamble ==
    /\ doc_pc = "preamble"
    /\ LET pre == IF Len(doc_pairs) = 0 THEN UnwrapNone
                  ELSE PreambleParse(doc_pairs[1].inner)
       IN IF pre.tag = "Ok"
          THEN /\ preamble' = Some(pre.val)
               /\ doc_pc' = "content1"
               /\ UNCHANGED doc_result
          ELSE /\ DocReturn(pre)
               /\ UNCHANGED preamble
    /\ UNCHANGED <<impl, entry, doc_pairs, content1, content2, stdout>>
    /\ UNCHANGED st_vars
    /\ UNCHANGED main_vars

DocContent1 ==
    /\ doc_pc = "content1"
    /\ LET c == IF Len(doc_pairs) < 2 THEN UnwrapNone
                ELSE DocumentContentParse(impl, doc_pairs[2])
       IN IF c.tag = "Ok"
          THEN /\ content1' = Some(c.val)
               /\ doc_pc' = "content2"
               /\ UNCHANGED doc_result
          ELSE /\ DocReturn(c)
               /\ UNCHANGED content1
    /\ Println("Document", IF Len(doc_pairs) < 2 THEN <<>>
                           ELSE DocumentContentPrints(impl, doc_pairs[2]))
    /\ UNCHANGED <<impl, entry, doc_pairs, preamble, content2>>
    /\ UNCHANGED st_vars
    /\ UNCHANGED main_vars

DocContent2 ==
    /\ doc_pc = "content2"
    /\ LET c == IF Len(doc_pairs) < 3 THEN UnwrapNone
                ELSE DocumentContentParse(impl, doc_pairs[3])
       IN IF c.tag = "Ok"
          THEN /\ content2' = Some(c.val)
               /\ doc_pc' = "split"
               /\ UNCHANGED doc_result
          ELSE /\ DocReturn(c)
               /\ UNCHANGED content2
    /\ Println("Document", IF Len(doc_pairs) < 3 THEN <<>>
                           ELSE DocumentContentPrints(impl, doc_pairs[3]))
    /\ UNCHANGED <<impl, entry, doc_pairs, preamble, content1>>
    /\ UNCHANGED st_vars
    /\ UNCHANGED main_vars

\* The match on (content1, content2) and the Ok(Document).
DocSplit ==
    /\ doc_pc = "split"
    /\ DocReturn(DocumentValue(preamble[1], SplitContents(impl, content1[1], content2[1])))
    /\ UNCHANGED <<impl, entry, doc_pairs, preamble, content1, content2, stdout>>
    /\ UNCHANGED st_vars
    /\ UNCHANGED main_vars

\* main ends: by a panic (status 101, the message on the standard error) or
\* by returning (status 0).
MainPanics(r) ==
    /\ main_pc' = "exit"
    /\ exit' = Some([status |-> 101, panic |-> Some(r.msg)])

MainReturns ==
    /\ main_pc' = "exit"
    /\ exit' = Some([status |-> 0, panic |-> None])

\* fs::read_to_string(&file), with a FILE argument.
MainReadFile ==
    /\ main_pc = "read"
    /\ tap_file # None
    /\ reads' = [reads EXCEPT !.file = @ + 1]
    /\ IF fail_at = 1
       THEN /\ MainPanics(Panic("Failed to read file, {}"))
            /\ UNCHANGED content
       ELSE /\ content' = Some(file)
            /\ main_pc' = "parse"
            /\ UNCHANGED exit
    /\ UNCHANGED <<impl, entry, stdout, buf, document>>
    /\ UNCHANGED main_env
    /\ UNCHANGED st_vars
    /\ UNCHANGED doc_vars

\* One read of stdin().read_to_string(&mut buf), without a FILE argument: it
\* fails, or finds the end of the stream (the buffer is the content), or
\* appends what it got to the buffer.
MainReadStdin ==
    /\ main_pc = "read"
    /\ tap_file = None
    /\ reads' = [reads EXCEPT !.stdin = @ + 1]
    /\ IF fail_at = reads.stdin + 1
       THEN /\ MainPanics(Panic("Failed to read from stdin"))
            /\ UNCHANGED <<buf, content>>
       ELSE IF AtEndOfStream(buf, StreamRest(stdin, reads.stdin))
            THEN /\ content' = Some(buf)
                 /\ main_pc' = "parse"
                 /\ UNCHANGED <<buf, exit>>
            ELSE /\ buf' = buf \o stdin[reads.stdin + 1]
                 /\ UNCHANGED <<main_pc, content, exit>>
    /\ UNCHANGED <<impl, entry, stdout, document>>
    /\ UNCHANGED main_env
    /\ UNCHANGED st_vars
    /\ UNCHANGED doc_vars

\* parse_document_from_str(&content).expect(..) and the `if let Some`.
MainParse ==
    /\ main_pc = "parse"
    /\ LET r == Expect(ParseDocumentFromStr(content[1]), "Failed to parse TAP document")
       IN IF r.tag # "Ok"
          THEN /\ MainPanics(r)
               /\ UNCHANGED document
          ELSE IF r.val = None
               THEN /\ MainReturns
                    /\ UNCHANGED document
               ELSE /\ document' = r.val
                    /\ main_pc' = "print"
                    /\ UNCHANGED exit
    /\ UNCHANGED <<impl, entry, stdout, reads, buf, content>>
    /\ UNCHANGED main_env
    /\ UNCHANGED st_vars
    /\ UNCHANGED doc_vars

\* serde_json::to_string_pretty(&document).expect(..), println!, return.
MainPrint ==
    /\ main_pc = "print"
    /\ LET text == Expect(ToStringPretty(document[1], ser_fails),
                          "Failed to serialize TAP document")
       IN IF text.tag # "Ok"
          THEN /\ MainPanics(text)
               /\ UNCHANGED stdout
          ELSE /\ Println("main", <<text.val>>)
               /\ MainReturns
    /\ UNCHANGED <<impl, entry, reads, buf, content, document>>
    /\ UNCHANGED main_env
    /\ UNCHANGED st_vars
    /\ UNCHANGED doc_vars

Next ==
    \/ SubtestFirst
    \/ SubtestRest
    \/ SubtestScan
    \/ SubtestFinish
    \/ DocPreamble
    \/ DocContent1
    \/ DocContent2
    \/ DocSplit
    \/ MainReadFile
    \/ MainReadStdin
    \/ MainParse
    \/ MainPrint

Spec == Init /\ [][Next]_vars

\* The calls whose runs are followed to their end: Subtest building on
\* every sequence of plans, tests and diagnostic lines, with or without a
\* name; Document building on plan blocks and on body blocks of these; the
\* command line tool on a whole text, from a file or from the standard
\* input.
ScanNodes == {PlanA, PlanB, TestOk, AnythingNode}

FairInit ==
    /\ Init
    /\ entry # "Both"
    /\ entry = "Subtest" =>
          \A k \in DOMAIN st_pairs : st_pairs[k] \in ScanNodes \cup {NameTok}
    /\ entry = "Document" =>
          \A k \in 2..3 :
             \/ doc_pairs[k] \in {PlanA, PlanB}
             \/ /\ doc_pairs[k].rule = "body"
                /\ \A j \in DOMAIN doc_pairs[k].inner :
                      doc_pairs[k].inner[j] \in ScanNodes
    /\ entry = "Main" =>
          /\ {file, Flatten(stdin)} = OtherContents
          /\ fail_at = 0

\* A call that has been started keeps running: a thread that can take a
\* step takes one.
FairSpec == FairInit /\ [][Next]_vars /\ WF_vars(Next)

(***************************************************************************)
(* The step-by-step calls compute what the builders compute as functions.  *)
(***************************************************************************)
StepsAgree ==
    /\ st_pc = "done" => st_result = Some(SubtestParse(impl, st_pairs))
    /\ doc_pc = "done" => doc_result = Some(DocumentParse(impl, doc_pairs))

(***************************************************************************)
(* Vocabulary of the properties.                                           *)
(***************************************************************************)
\* The child nodes of the subtest after the optional name token.
StChildren ==
    IF Len(st_pairs) > 0 /\ st_pairs[1].rule = "name" THEN Tail(st_pairs) ELSE st_pairs

StNamePrefix ==
    IF Len(st_pairs) > 0 /\ st_pairs[1].rule = "name" THEN <<st_pairs[1]>> ELSE <<>>

PlanPositions(s) == {k \in DOMAIN s : s[k].rule = "plan"}

LastPlanNode(s) == s[CHOOSE k \in PlanPositions(s) : \A j \in PlanPositions(s) : j <= k]

AdjacentPlans(s) == \E k \in PlanPositions(s) : k + 1 \in PlanPositions(s)

NonPlanNodes(s) == SelectSeq(s, LAMBDA n : n.rule # "plan")

\* Every node of s builds: a plan node into a Plan, any other into a Statement.
AllBuild(im, s) == \A k \in DOMAIN s : Classify(im, s[k]).tag = "Ok"

\* The Statements the non-plan nodes of s are dispatched to, in order.
StatementsOf(im, s) ==
    [k \in DOMAIN NonPlanNodes(s) |-> StatementParse(im, NonPlanNodes(s)[k]).val]

InsertAt(s, k, x) == SubSeq(s, 1, k) \o <<x>> \o SubSeq(s, k + 1, Len(s))

StatementKinds == {"Anything", "BailOut", "Pragma", "Subtest", "Test"}

StDone == st_pc = "done"

DocDone == doc_pc = "done"

\* The child nodes Subtest::parse has looked at so far.
StConsumed == {k \in DOMAIN st_pairs : k < st_pos}

\* C1 (as claimed): whenever the child sequence holds two or more plan nodes,
\* adjacent ones included, the Subtest is built and its plan is the Plan of
\* the plan node that comes last in the sequence.
C1_LastPlanWins ==
    (StDone /\ Cardinality(PlanPositions(StChildren)) >= 2 /\ AllBuild(impl, StChildren))
        => /\ st_result[1].tag = "Ok"
           /\ st_result[1].val.plan = PlanParse(LastPlanNode(StChildren).inner).val

\* C2 (as claimed): a child sequence without any plan node, a lone name token
\* included, makes Subtest building return a typed error (Err), never a panic.
C2_MissingPlanIsError ==
    (StDone /\ PlanPositions(StChildren) = {} /\ AllBuild(impl, StChildren))
        => st_result[1].tag = "Err"

\* C3 (as claimed): two plan blocks, or two body blocks, after the preamble
\* make Document building return a typed error (Err): neither a Document nor
\* a panic.
C3_DuplicateBlockIsError ==
    (/\ DocDone
     /\ doc_pairs[2].rule = doc_pairs[3].rule
     /\ DocumentContentParse(impl, doc_pairs[2]).tag = "Ok"
     /\ DocumentContentParse(impl, doc_pairs[3]).tag = "Ok")
        => doc_result[1].tag = "Err"

OnePlanOneBody ==
    {doc_pairs[2].rule, doc_pairs[3].rule} = {"plan", "body"}

DocPlanNode == IF doc_pairs[2].rule = "plan" THEN doc_pairs[2] ELSE doc_pairs[3]

DocBodyNode == IF doc_pairs[2].rule = "body" THEN doc_pairs[2] ELSE doc_pairs[3]

\* C4: for a preamble P, a plan block L and a body block B that each build,
\* the node sequences [P, L, B] and [P, B, L] both assemble, into the same
\* Document: the preamble of P, the plan of L, the statements of B in order.
C4_OrderIndependence ==
    (/\ DocDone
     /\ OnePlanOneBody
     /\ DocumentContentParse(impl, doc_pairs[2]).tag = "Ok"
     /\ DocumentContentParse(impl, doc_pairs[3]).tag = "Ok")
        => /\ doc_result[1] =
                Ok([preamble |-> PreambleParse(doc_pairs[1].inner).val,
                    plan |-> PlanParse(DocPlanNode.inner).val,
                    body |-> CollectStatements(impl, DocBodyNode.inner, 1, <<>>).val])
           /\ DocumentParse(impl, <<doc_pairs[1], doc_pairs[3], doc_pairs[2]>>)
                = doc_result[1]

\* A body-then-plan document with a statement in its body has been assembled.
C4_Witness ==
    /\ DocDone
    /\ doc_pairs[2].rule = "body" /\ doc_pairs[3].rule = "plan"
    /\ doc_result[1].tag = "Ok"
    /\ Len(doc_result[1].val.body) = 2
    /\ doc_result[1].val.plan.last = 2

\* C5: for statement nodes S1..Sn and one plan node P that all build, the
\* Subtest is the same wherever P stands among them (before, between, after):
\* plan = the Plan of P, body = the Statements of S1..Sn in order.
C5_PlanPositionIndependence ==
    (StDone /\ Cardinality(PlanPositions(StChildren)) = 1 /\ AllBuild(impl, StChildren))
        => LET P == LastPlanNode(StChildren)
               S == NonPlanNodes(StChildren)
               expected == Ok([name |-> SubtestName(st_pairs[1]),
                               plan |-> PlanParse(P.inner).val,
                               body |-> StatementsOf(impl, S)])
           IN /\ st_result[1] = expected
              /\ \A k \in 0..Len(S) :
                    SubtestParse(impl, StNamePrefix \o InsertAt(S, k, P)) = expected

\* A subtest whose plan stands between two different statements has been built.
C5_Witness ==
    /\ StDone
    /\ Len(StChildren) = 3
    /\ PlanPositions(StChildren) = {2}
    /\ StChildren[1] # StChildren[3]
    /\ st_result[1].tag = "Ok"
    /\ Len(st_result[1].val.body) = 2

\* C6: whenever the child sequence holds at least one plan node and the
\* Subtest is built, its body holds no Plan and is exactly the Statements of
\* the non-plan nodes, in their order; and it is built whenever every child
\* node builds.
C6_BodyExtraction ==
    (StDone /\ PlanPositions(StChildren) # {})
        => /\ AllBuild(impl, StChildren) => st_result[1].tag = "Ok"
           /\ st_result[1].tag = "Ok" =>
                /\ st_result[1].val.body = StatementsOf(impl, StChildren)
                /\ \A k \in DOMAIN st_result[1].val.body :
                      /\ DOMAIN st_result[1].val.body[k] = {"kind", "val"}
                      /\ st_result[1].val.body[k].kind \in StatementKinds

\* A subtest with two adjacent plan nodes and a statement has been built.
C6_Witness ==
    /\ StDone
    /\ Cardinality(PlanPositions(StChildren)) = 2
    /\ AdjacentPlans(StChildren)
    /\ st_result[1].tag = "Ok"
    /\ Len(st_result[1].val.body) = 1

\* A test node with a directive child whose key is neither skip nor todo.
BadDirectives(node) ==
    {k \in DOMAIN node.inner :
        /\ node.inner[k].rule = "directive"
        /\ Len(node.inner[k].inner) > 0
        /\ ToLowercase(node.inner[k].inner[1].text)
              \notin {<<"s", "k", "i", "p">>, <<"t", "o", "d", "o">>}}

\* C7 (as claimed): a Directive with an unrecognized key does not build, and
\* once Subtest building has looked at a test node with such a directive,
\* the Test is an error and so is the outcome of the call (no Test with
\* directive absent is kept).
C7_BadDirectiveKeyIsError ==
    \A k \in StConsumed :
        (st_pairs[k].rule = "test" /\ BadDirectives(st_pairs[k]) # {})
            => /\ \A d \in BadDirectives(st_pairs[k]) :
                     DirectiveParse(st_pairs[k].inner[d].inner).tag = "Err"
               /\ TestParse(st_pairs[k].inner).tag = "Err"
               /\ StDone
               /\ st_result[1].tag = "Err"

\* A test node with a number child that is no i32.
BadNumbers(node) ==
    {k \in DOMAIN node.inner :
        /\ node.inner[k].rule = "number"
        /\ ParseI32(node.inner[k].text).tag = "Err"}

\* C8 (as claimed): once Subtest building has looked at a test node whose
\* number is no signed 32-bit integer, the Test is an error and so is the
\* outcome of the call (no Test with number absent is kept).
C8_BadNumberIsError ==
    \A k \in StConsumed :
        (st_pairs[k].rule = "test" /\ BadNumbers(st_pairs[k]) # {})
            => /\ TestParse(st_pairs[k].inner).tag = "Err"
               /\ StDone
               /\ st_result[1].tag = "Err"

\* The first of the two bounds of a plan node that is no i32: 1 (first), 2
\* (last), or 0 when both are.
BadBound(node) ==
    IF ParseI32(node.inner[1].text).tag = "Err" THEN 1
    ELSE IF ParseI32(node.inner[2].text).tag = "Err" THEN 2
    ELSE 0

\* The plan node with its two bounds exchanged: the same tokens' texts, the
\* offending one in the other field.
SwapBounds(node) ==
    [node EXCEPT !.inner[1].text = node.inner[2].text,
                 !.inner[2].text = node.inner[1].text]

ArgsOf(e) == {e.args[k] : k \in DOMAIN e.args}

\* C9 (as claimed): once Subtest building has looked at a plan node whose
\* first or last token is no signed integer, the call has returned a typed
\* error (Err) that carries the raw text of the offending token and tells
\* the offending field: it is not the error of the same text in the other
\* field.
C9_BadBoundIsNamedError ==
    \A k \in StConsumed :
        (st_pairs[k].rule = "plan" /\ BadBound(st_pairs[k]) # 0)
            => /\ StDone
               /\ st_result[1].tag = "Err"
               /\ st_pairs[k].inner[BadBound(st_pairs[k])].text \in ArgsOf(st_result[1].err)
               /\ st_result[1].err # PlanParse(SwapBounds(st_pairs[k]).inner).err

\* The node itself does not build: a plan with a bound that is no i32, a
\* number that is no i32, a directive with an unrecognized key, a test with
\* an unrecognized result, a subtest without a plan node.
FailsItself(node) ==
    \/ node.rule = "plan" /\ PlanParse(node.inner).tag # "Ok"
    \/ node.rule = "number" /\ ParseI32(node.text).tag # "Ok"
    \/ node.rule = "directive" /\ DirectiveParse(node.inner).tag # "Ok"
    \/ node.rule = "test" /\ Len(node.inner) > 0 /\ TestResult(node.inner[1]).tag # "Ok"
    \/ node.rule = "subtest" /\ PlanPositions(node.inner) = {}

\* Some node of the tree below (and including) node does not build.
RECURSIVE FailsWithin(_)
FailsWithin(node) ==
    FailsItself(node) \/ \E k \in DOMAIN node.inner : FailsWithin(node.inner[k])

\* C10 (as claimed): if any node of the tree fails to build (a top-level
\* block, a body statement, a node nested at any depth), the top-level parse
\* returns an error, and no Document.
C10_NoPartialResult ==
    (DocDone /\ \E k \in DOMAIN doc_pairs : FailsWithin(doc_pairs[k]))
        => doc_result[1].tag = "Err"

StatementRules == {"test", "bail_out", "pragma", "subtest", "anything"}

\* The Statement variant named after a node tag.
KindOf(rule) ==
    CASE rule = "test" -> "Test"
      [] rule = "bail_out" -> "BailOut"
      [] rule = "pragma" -> "Pragma"
      [] rule = "subtest" -> "Subtest"
      [] rule = "anything" -> "Anything"

\* The outcome of the builder the dispatcher invokes for a node; for an
\* anything node, the node's raw text.
BuilderOf(im, node) ==
    CASE node.rule = "test" -> TestParse(node.inner)
      [] node.rule = "bail_out" -> BailOutParse(node.inner)
      [] node.rule = "pragma" -> PragmaParse(im, node.inner)
      [] node.rule = "subtest" -> SubtestParse(im, node.inner)
      [] node.rule = "anything" -> Ok([text |-> node.text])

\* C11: for every child node with one of the five statement tags that
\* Subtest building has dispatched, the dispatcher yields the variant named
\* after the tag around the value of the node's builder (for anything, the
\* raw text) when the builder succeeds, and the builder's own failure when
\* it fails; the call then returns that failure, and a finished Subtest
\* holds that Statement in its body.
C11_DispatcherMapping ==
    \A k \in StConsumed :
        st_pairs[k].rule \in StatementRules =>
            LET node == st_pairs[k]
                b == BuilderOf(impl, node)
                s == StatementParse(impl, node)
            IN /\ (s.tag = "Ok") <=> (b.tag = "Ok")
               /\ b.tag = "Ok" =>
                     /\ s = Ok([kind |-> KindOf(node.rule), val |-> b.val])
                     /\ (StDone /\ st_result[1].tag = "Ok") =>
                           \E j \in DOMAIN st_result[1].val.body :
                               st_result[1].val.body[j] =
                                   [kind |-> KindOf(node.rule), val |-> b.val]
               /\ b.tag # "Ok" => (s = b /\ StDone /\ st_result[1] = b)

\* A subtest with a pragma and a statement of another kind has been built.
C11_Witness ==
    /\ StDone
    /\ st_result[1].tag = "Ok"
    /\ \E j, k \in DOMAIN st_result[1].val.body :
          /\ st_result[1].val.body[j].kind = "Pragma"
          /\ st_result[1].val.body[k].kind \in {"Test", "Anything"}

\* The calls that have written to the standard output.
Writers == {stdout[k].by : k \in DOMAIN stdout}

\* C12 (as claimed): a parse call has no effect other than the value it
\* returns: whatever the nodes it builds, a pragma with a flag included,
\* nothing has been written to the standard output by Subtest or Document
\* building.
C12_ParsePurity ==
    Writers \cap {"Subtest", "Document"} = {}

\* The Pragma a pragma node stands for: flag from a leading + or - token
\* (absent without one), option from the identifier token.
PragmaExpected(node) ==
    [flag |-> IF node.inner[1].rule = "flag"
              THEN Some(node.inner[1].text = <<"+">>)
              ELSE None,
     option |-> node.inner[Len(node.inner)].text]

\* C13 (as claimed): in the Document assembled from a plan block and a body
\* block, by the library builder and by the command line tool's alike, the
\* Pragma of every pragma statement has flag = true for a leading +, false
\* for a leading -, absent without a flag token, and option = the text of
\* the identifier token.
C13_PragmaFlagRetained ==
    (DocDone /\ OnePlanOneBody /\ doc_result[1].tag = "Ok")
        => \A j \in DOMAIN DocBodyNode.inner :
              DocBodyNode.inner[j].rule = "pragma"
                  => doc_result[1].val.body[j] =
                        [kind |-> "Pragma", val |-> PragmaExpected(DocBodyNode.inner[j])]

\* The place in the body of the Statement of the k-th child node: the
\* number of statement nodes up to it.
BodyIndex(k) == Cardinality({j \in 1..k : st_pairs[j].rule \notin {"plan", "name"}})

\* The test nodes among the child nodes Subtest building has looked at.
TestsConsumed == {k \in StConsumed : st_pairs[k].rule = "test"}

\* The Subtest has been built.
StBuilt == StDone /\ st_result[1].tag = "Ok"

\* The Test in the body of the built Subtest that stands for child node k.
BodyTest(k) == st_result[1].val.body[BodyIndex(k)].val

\* The inner lines of the yaml_block nodes among the children, block after
\* block in the order of the children, line after line in each.
RECURSIVE YamlLines(_)
YamlLines(children) ==
    IF Len(children) = 0 THEN <<>>
    ELSE (IF children[1].rule = "yaml_block"
          THEN [k \in DOMAIN children[1].inner |-> children[1].inner[k].text]
          ELSE <<>>) \o YamlLines(Tail(children))

\* The result token followed by the yaml_block children only.
OnlyYamlBlocks(children) ==
    <<children[1]>> \o SelectSeq(Tail(children), LAMBDA c : c.rule = "yaml_block")

\* C14: the yaml of the Test built from a test node is the concatenation of
\* the inner lines of its yaml_block children in the order met, the lines
\* of each block in their order; it is empty when there is no block; it is
\* the same with the children of other kinds taken away; and the Test in
\* the body of the built Subtest holds exactly these lines.
C14_YamlConcatenation ==
    \A k \in TestsConsumed :
        TestParse(st_pairs[k].inner).tag = "Ok" =>
            /\ TestParse(st_pairs[k].inner).val.yaml = YamlLines(st_pairs[k].inner)
            /\ (\A c \in DOMAIN st_pairs[k].inner :
                    st_pairs[k].inner[c].rule # "yaml_block")
                  => TestParse(st_pairs[k].inner).val.yaml = <<>>
            /\ TestParse(OnlyYamlBlocks(st_pairs[k].inner)).val.yaml
                  = YamlLines(st_pairs[k].inner)
            /\ StBuilt => BodyTest(k).yaml = YamlLines(st_pairs[k].inner)

\* A Subtest has been built with a Test of three yaml lines from two
\* non-empty blocks that have a description between them.
C14_Witness ==
    /\ StBuilt
    /\ \E k \in TestsConsumed :
          /\ \E a, b, c \in DOMAIN st_pairs[k].inner :
                /\ a < b /\ b < c
                /\ st_pairs[k].inner[a].rule = "yaml_block"
                /\ Len(st_pairs[k].inner[a].inner) > 0
                /\ st_pairs[k].inner[b].rule = "description"
                /\ st_pairs[k].inner[c].rule = "yaml_block"
                /\ Len(st_pairs[k].inner[c].inner) > 0
          /\ BodyTest(k).yaml = <<<<"b">>, <<"a">>, <<"c">>>>

UpperChar(c) ==
    IF \E k \in DOMAIN LowerChars : LowerChars[k] = c
    THEN UpperChars[CHOOSE k \in DOMAIN LowerChars : LowerChars[k] = c]
    ELSE c

\* Every way of writing the text in upper and lower case letters.
RECURSIVE Casings(_)
Casings(text) ==
    IF Len(text) = 0 THEN {<<>>}
    ELSE {<<c>> \o r : c \in {LowerChar(text[1]), UpperChar(text[1])},
                       r \in Casings(Tail(text))}

\* The directive children of a test node whose key is skip or todo in some casing.
GoodDirectives(node) ==
    {d \in DOMAIN node.inner :
        /\ node.inner[d].rule = "directive"
        /\ Len(node.inner[d].inner) > 0
        /\ ToLowercase(node.inner[d].inner[1].text)
              \in {<<"s", "k", "i", "p">>, <<"t", "o", "d", "o">>}}

DirectiveChildren(node) == {d \in DOMAIN node.inner : node.inner[d].rule = "directive"}

\* The Directive a directive node with a skip or todo key stands for.
DirectiveExpected(dnode) ==
    [key |-> IF ToLowercase(dnode.inner[1].text) = <<"s", "k", "i", "p">>
             THEN "Skip" ELSE "Todo",
     reason |-> IF Len(dnode.inner) >= 2 THEN Some(dnode.inner[2].text) ELSE None]

\* The directive node with its key token written as c.
WithKey(dnode, c) == [dnode EXCEPT !.inner[1].text = c]

\* C15: for every directive child (of a test node Subtest building has
\* looked at) whose key is skip or todo in some casing, every casing of the
\* key builds the same Directive: key Skip or Todo, the enum value alone,
\* and reason present exactly when there is a second child token, with its
\* text; the Test of the built Subtest holds that Directive when the
\* directive is the only one of its test node.
C15_DirectiveKeyCaseInsensitive ==
    \A k \in TestsConsumed :
        \A d \in GoodDirectives(st_pairs[k]) :
            /\ \A c \in Casings(st_pairs[k].inner[d].inner[1].text) :
                  DirectiveParse(WithKey(st_pairs[k].inner[d], c).inner)
                      = Ok(DirectiveExpected(st_pairs[k].inner[d]))
            /\ DirectiveExpected(st_pairs[k].inner[d]).key \in {"Skip", "Todo"}
            /\ (StBuilt /\ DirectiveChildren(st_pairs[k]) = {d})
                  => BodyTest(k).directive = Some(DirectiveExpected(st_pairs[k].inner[d]))

\* A Subtest has been built with a Test whose directive key was written in
\* mixed case, neither all lower nor all upper case.
C15_Witness ==
    /\ StBuilt
    /\ \E k \in TestsConsumed :
          \E d \in GoodDirectives(st_pairs[k]) :
              /\ DirectiveChildren(st_pairs[k]) = {d}
              /\ st_pairs[k].inner[d].inner[1].text = <<"S", "k", "i", "p">>
              /\ BodyTest(k).directive = Some([key |-> "Skip", reason |-> Some(<<"w", "h", "y">>)])

TextOk == <<"o", "k">>

TextNotOk == <<"n", "o", "t", " ", "o", "k">>

\* The children of a test node with the result token written as c.
WithResult(children, c) == [children EXCEPT ![1].text = c]

\* The child node Subtest building has looked at last, while the call is
\* collecting its contents or has returned.
JustConsumed(k) == k + 1 = st_pos /\ st_pc \in {"rest", "done"}

\* C16: for every test node Subtest building has looked at, with result
\* token t: if t lower-cased is "ok" ("not ok"), the Test is built with
\* result = true (false), every casing of t builds the same Test (each node
\* is tried in all casings when it has just been looked at), and every
\* casing of the result token without the other children builds a Test with
\* that result; the Test of the built Subtest has that result; any other t
\* makes Test building, and the call, return the error naming t.
C16_TestResult ==
    \A k \in TestsConsumed :
        LET children == st_pairs[k].inner
            t == children[1].text
            expected == (ToLowercase(t) = TextOk)
            whole == TestParse(children)
        IN IF ToLowercase(t) \in {TextOk, TextNotOk}
           THEN /\ whole.tag = "Ok"
                /\ whole.val.result = expected
                /\ JustConsumed(k) =>
                     \A c \in Casings(t) :
                        /\ TestParse(WithResult(children, c)) = whole
                        /\ TestParse(<<Tok("result", c)>>) = Ok(TestInit(expected))
                /\ StBuilt => BodyTest(k).result = expected
           ELSE /\ TestParse(children) = Err(TestResultError(t))
                /\ TestParse(<<children[1]>>) = Err(TestResultError(t))
                /\ StDone
                /\ st_result[1] = Err(TestResultError(t))

\* A Subtest has been built with a Test whose result token was written
\* "Not OK".
C16_Witness ==
    /\ StBuilt
    /\ \E k \in TestsConsumed :
          /\ st_pairs[k].inner[1].text = <<"N", "o", "t", " ", "O", "K">>
          /\ BodyTest(k).result = FALSE

\* The places of the children with the given tag, after the result token.
ChildrenOf(children, rule) ==
    {c \in DOMAIN children : c > 1 /\ children[c].rule = rule}

\* The last child with the given tag (there is one).
LastChild(children, rule) ==
    children[CHOOSE c \in ChildrenOf(children, rule) :
                \A e \in ChildrenOf(children, rule) : e <= c]

\* The fields number, description and directive as the last child of each
\* kind gives them: absent without such a child; a number or a directive
\* that does not build gives absent.
LastWinsFields(children) ==
    [number |-> IF ChildrenOf(children, "number") = {} THEN None
                ELSE OkOption(ParseI32(LastChild(children, "number").text)),
     description |-> IF ChildrenOf(children, "description") = {} THEN None
                     ELSE Some(LastChild(children, "description").text),
     directive |-> IF ChildrenOf(children, "directive") = {} THEN None
                   ELSE OkOption(DirectiveParse(LastChild(children, "directive").inner))]

FieldsOf(test) ==
    [number |-> test.number, description |-> test.description,
     directive |-> test.directive]

\* C20: for every test node Subtest building has looked at that builds,
\* each of number, description and directive is the value derived from the
\* last child of that kind, whatever stands before it (earlier children of
\* the kind, children of other kinds), without error; the Test of the built
\* Subtest holds these values.
C20_LastChildWins ==
    \A k \in TestsConsumed :
        ToLowercase(st_pairs[k].inner[1].text) \in {TextOk, TextNotOk} =>
            /\ TestParse(st_pairs[k].inner).tag = "Ok"
            /\ FieldsOf(TestParse(st_pairs[k].inner).val)
                  = LastWinsFields(st_pairs[k].inner)
            /\ StBuilt => FieldsOf(BodyTest(k)) = LastWinsFields(st_pairs[k].inner)

\* A Subtest has been built with a Test of two numbers, two descriptions
\* and two directives, holding the second of each.
C20_Witness ==
    /\ StBuilt
    /\ \E k \in TestsConsumed :
          /\ Cardinality(ChildrenOf(st_pairs[k].inner, "number")) = 2
          /\ Cardinality(ChildrenOf(st_pairs[k].inner, "description")) = 2
          /\ Cardinality(ChildrenOf(st_pairs[k].inner, "directive")) = 2
          /\ FieldsOf(BodyTest(k)) =
                [number |-> Some(2), description |-> Some(<<"y">>),
                 directive |-> Some([key |-> "Todo", reason |-> None])]

\* C19 (as claimed): when a call of Subtest building and a call of Document
\* building on inputs of their own run interleaved in any order, each
\* returns the outcome it has when run alone, and nothing is written by
\* both of them.
C19_ConcurrentIndependence ==
    entry = "Both" =>
        /\ StDone => st_result = Some(SubtestParse(impl, st_pairs))
        /\ DocDone => doc_result = Some(DocumentParse(impl, doc_pairs))
        /\ Cardinality(Writers) <= 1

MainDone == main_pc = "exit"

\* The lines of the standard output written by main.
MainEmitted == {k \in DOMAIN stdout : stdout[k].by = "main"}

\* The whole text of the source the arguments select.
InputText == IF tap_file # None THEN file ELSE Flatten(stdin)

\* One of the reads of the selected source fails.
ReadFailure == fail_at # 0

\* The text is read, and does not parse: the grammar rejects it, or the
\* builder returns an error or panics.
ParseFailure == ~ReadFailure /\ ParseDocumentFromStr(InputText).tag # "Ok"

\* The text is read and parses, and the serializer fails.
SerializationFailure == ~ReadFailure /\ ~ParseFailure /\ ser_fails

\* C17: a run of the tool that has ended after a read failure, a parse
\* failure or a serialization failure has a non-zero status and has emitted
\* nothing; a run that has ended with status zero has emitted exactly one
\* line, the serialized Document of the whole input; and nothing is emitted
\* by a run that has not ended with status zero.
C17_CliOutcome ==
    /\ MainDone =>
          /\ (ReadFailure \/ ParseFailure \/ SerializationFailure)
                => (exit[1].status # 0 /\ MainEmitted = {})
          /\ exit[1].status = 0
                => /\ Cardinality(MainEmitted) = 1
                   /\ ParseDocumentFromStr(InputText).tag = "Ok"
                   /\ \A k \in MainEmitted :
                         Ok(stdout[k].line) =
                            ToStringPretty(ParseDocumentFromStr(InputText).val[1], FALSE)
    /\ MainEmitted # {} => (MainDone /\ exit[1].status = 0)

\* A run has ended with a non-zero status, having emitted nothing, on a
\* text the grammar accepts and the builder rejects.
C17_Witness ==
    /\ MainDone
    /\ exit[1].status = 101
    /\ MainEmitted = {}
    /\ ~ReadFailure
    /\ TAPParserParse(InputText).tag = "Ok"
    /\ ParseDocumentFromStr(InputText).tag = "Err"

\* C18: when parsing starts (and ever after) the content is the whole text
\* of the selected source, and on the standard input the end of the stream
\* has been found; with a FILE argument only the file is read, without one
\* only the standard input, never both; and serialization starts, and a
\* Document is emitted, only once parsing the content has given that
\* Document.
C18_CliOrdering ==
    /\ main_pc \in {"parse", "print"} => content # None
    /\ content # None =>
          /\ content[1] = InputText
          /\ tap_file = None => reads.stdin = Len(stdin) + 1
    /\ tap_file # None => reads.stdin = 0
    /\ tap_file = None => reads.file = 0
    /\ (main_pc = "print" \/ MainEmitted # {}) =>
          /\ document # None
          /\ content # None
          /\ ParseDocumentFromStr(content[1]) = Ok(document)

\* A run reading the standard input in two reads before the end of the
\* stream has emitted its Document and ended with status zero.
C18_Witness ==
    /\ MainDone
    /\ exit[1].status = 0
    /\ tap_file = None
    /\ Len(stdin) = 2
    /\ reads.stdin = 3
    /\ Cardinality(MainEmitted) = 1

(***************************************************************************)
(* The name step of Subtest building.                                      *)
(***************************************************************************)
\* The first child node has been looked at and nothing after it.
AfterFirst == st_pc = "rest" /\ st_pos = 2

\* C21: if the first child node of a subtest is a name token, the name is
\* its text and the node is neither classified as a Plan nor dispatched as a
\* Statement nor put into the body (nothing is collected or written for it,
\* and the body holds the Statements of the nodes after it only); otherwise
\* the name is absent and the first node is classified as every later node
\* is, and keeps the first position.
C21_NameStep ==
    (st_pc \notin {"idle", "first"} /\ Len(st_pairs) > 0)
        => IF st_pairs[1].rule = "name"
           THEN /\ name = Some(st_pairs[1].text)
                /\ AfterFirst => contents = <<>> /\ stdout = <<>>
                /\ StBuilt =>
                      /\ st_result[1].val.name = Some(st_pairs[1].text)
                      /\ st_result[1].val.body = StatementsOf(impl, Tail(st_pairs))
                      /\ st_result[1].val.plan \in
                            {PlanParse(Tail(st_pairs)[k].inner).val :
                                k \in PlanPositions(Tail(st_pairs))}
           ELSE /\ name = None
                /\ AfterFirst => contents = <<Classify(impl, st_pairs[1]).val>>
                /\ Classify(impl, st_pairs[1]).tag # "Ok"
                      => StDone /\ st_result[1] = Classify(impl, st_pairs[1])
                /\ StBuilt =>
                      /\ st_result[1].val.name = None
                      /\ st_pairs[1].rule # "plan"
                            => st_result[1].val.body[1]
                                  = StatementParse(impl, st_pairs[1]).val
                      /\ PlanPositions(st_pairs) = {1}
                            => st_result[1].val.plan = PlanParse(st_pairs[1].inner).val

\* A named Subtest has been built whose body holds the one statement node
\* after the name.
C21_Witness ==
    /\ StBuilt
    /\ st_pairs = <<NameTok, TestOk, PlanB>>
    /\ st_result[1].val.name = Some(NameTok.text)
    /\ Len(st_result[1].val.body) = 1

(***************************************************************************)
(* Nested subtests.                                                        *)
(***************************************************************************)
\* The child nodes of a subtest node after its optional name token.
ChildrenAfterName(pairs) ==
    IF Len(pairs) > 0 /\ pairs[1].rule = "name" THEN Tail(pairs) ELSE pairs

\* The Plans of the plan nodes that are direct children of a subtest node.
DirectPlans(pairs) ==
    {PlanParse(ChildrenAfterName(pairs)[k].inner).val :
        k \in PlanPositions(ChildrenAfterName(pairs))}

\* The Subtest `value` mirrors the subtest node with child nodes `pairs`, and
\* the statements `body` mirror the statement nodes `nodes`: one Statement
\* for each node, in order, of the kind of the node; a Subtest for a subtest
\* node, mirroring it in turn.
RECURSIVE SubtestMirrors(_, _, _)
RECURSIVE BodyMirrors(_, _, _)
SubtestMirrors(im, pairs, value) ==
    /\ value.plan \in DirectPlans(pairs)
    /\ BodyMirrors(im, NonPlanNodes(ChildrenAfterName(pairs)), value.body)

BodyMirrors(im, nodes, body) ==
    /\ Len(body) = Len(nodes)
    /\ \A j \in DOMAIN nodes :
          /\ body[j].kind = KindOf(nodes[j].rule)
          /\ IF nodes[j].rule = "subtest"
             THEN SubtestMirrors(im, nodes[j].inner, body[j].val)
             ELSE body[j] = StatementParse(im, nodes[j]).val

\* C22: in what is built from subtests nested at any depth, the plan of
\* every Subtest is the Plan of a plan node that is a direct child of its
\* own subtest node, and its body the Statements of the direct non-plan
\* children of that node, in order; the plan of a Document is the Plan of
\* its own plan block: the Plan of an inner Subtest never becomes the plan
\* of an enclosing Subtest or Document, and the nesting of the output is
\* that of the input.
C22_RecursiveResolution ==
    /\ StBuilt => SubtestMirrors(impl, st_pairs, st_result[1].val)
    /\ (DocDone /\ doc_result[1].tag = "Ok")
          => /\ doc_result[1].val.plan = PlanParse(DocPlanNode.inner).val
             /\ BodyMirrors(impl, DocBodyNode.inner, doc_result[1].val.body)

\* A Subtest has been built around a Subtest that holds a Subtest, the plan
\* 1..1 at the two outer levels and 1..2 (TBD) innermost.
C22_Witness ==
    /\ StBuilt
    /\ \E k \in DOMAIN st_result[1].val.body :
          /\ st_result[1].val.body[k].kind = "Subtest"
          /\ st_result[1].val.plan = PlanParse(PlanA.inner).val
          /\ st_result[1].val.body[k].val.plan = PlanParse(PlanA.inner).val
          /\ st_result[1].val.body[k].val.body[1].kind = "Subtest"
          /\ st_result[1].val.body[k].val.body[1].val.plan = PlanParse(PlanB.inner).val

(***************************************************************************)
(* The unreachable!() branches.                                            *)
(***************************************************************************)
\* Every child of the body node carries one of the five statement tags, and
\* every child of a subtest node is a plan or one of these, after an
\* optional leading name token, at every depth.
RECURSIVE Conforming(_)
Conforming(node) ==
    /\ node.rule = "body"
          => \A k \in DOMAIN node.inner : node.inner[k].rule \in StatementRules
    /\ node.rule = "subtest"
          => \A k \in DOMAIN node.inner :
                \/ node.inner[k].rule \in StatementRules \cup {"plan"}
                \/ k = 1 /\ node.inner[k].rule = "name"
    /\ node.rule \in {"body", "subtest"}
          => \A k \in DOMAIN node.inner : Conforming(node.inner[k])

\* C23 (as claimed): on trees whose body and subtest nodes have children of
\* the tags the grammar gives them, no execution of Document or Subtest
\* building ends in an unreachable!() branch of the builders.
C23_NoUnreachable ==
    /\ (StDone /\ Conforming(Node("subtest", st_pairs)))
          => st_result[1] # Unreachable
    /\ (DocDone /\ \A k \in DOMAIN doc_pairs : Conforming(doc_pairs[k]))
          => doc_result[1] # Unreachable

\* The part of C23 that holds: with one plan block and one body block, no
\* unreachable!() branch is entered.
C23_OnePlanOneBodyNoUnreachable ==
    /\ (StDone /\ Conforming(Node("subtest", st_pairs)))
          => st_result[1] # Unreachable
    /\ (DocDone /\ OnePlanOneBody /\ \A k \in DOMAIN doc_pairs : Conforming(doc_pairs[k]))
          => doc_result[1] # Unreachable

(***************************************************************************)
(* The bounds of a plan.                                                   *)
(***************************************************************************)
\* The digits of a token after its optional sign, and without leading zeros.
Unsigned(text) == IF Len(text) > 0 /\ text[1] \in {"+", "-"} THEN Tail(text) ELSE text

RECURSIVE StripZeros(_)
StripZeros(digits) ==
    IF Len(digits) > 1 /\ digits[1] = "0" THEN StripZeros(Tail(digits)) ELSE digits

\* The token is a decimal integer: an optional sign and one digit or more.
IsIntegerToken(text) ==
    /\ Len(Unsigned(text)) > 0
    /\ \A k \in DOMAIN Unsigned(text) : IsDigit(Unsigned(text)[k])

\* a <= b for two digit sequences of one length.
RECURSIVE DigitsLeq(_, _)
DigitsLeq(a, b) ==
    \/ Len(a) = 0
    \/ DigitVal(a[1]) < DigitVal(b[1])
    \/ a[1] = b[1] /\ DigitsLeq(Tail(a), Tail(b))

\* The integer the token denotes lies in -2^31 .. 2^31 - 1.
InI32Range(text) ==
    /\ IsIntegerToken(text)
    /\ LET digits == StripZeros(Unsigned(text))
           bound == IF text[1] = "-"
                    THEN <<"2", "1", "4", "7", "4", "8", "3", "6", "4", "8">>
                    ELSE <<"2", "1", "4", "7", "4", "8", "3", "6", "4", "7">>
       IN Len(digits) < 10 \/ (Len(digits) = 10 /\ DigitsLeq(digits, bound))

\* The integer a token in that range denotes.
RECURSIVE SignedValue(_, _, _)
SignedValue(digits, sign, acc) ==
    IF Len(digits) = 0 THEN acc
    ELSE SignedValue(Tail(digits), sign, acc * 10 + sign * DigitVal(digits[1]))

IntegerOf(text) == SignedValue(Unsigned(text), IF text[1] = "-" THEN -1 ELSE 1, 0)

\* The Plan claimed for a plan node: both bounds as they stand, the text of
\* a third token as the reason.
PlanExpected(node) ==
    [first |-> IntegerOf(node.inner[1].text),
     last |-> IntegerOf(node.inner[2].text),
     reason |-> IF Len(node.inner) >= 3 THEN Some(node.inner[3].text) ELSE None]

\* The plan nodes with two bound tokens that are integers / integers of the
\* 32 bit range.
IntegerBounds(node) ==
    /\ node.rule = "plan" /\ Len(node.inner) >= 2
    /\ IsIntegerToken(node.inner[1].text) /\ IsIntegerToken(node.inner[2].text)

I32Bounds(node) ==
    /\ node.rule = "plan" /\ Len(node.inner) >= 2
    /\ InI32Range(node.inner[1].text) /\ InI32Range(node.inner[2].text)

\* C24 (as claimed): Plan building succeeds for every pair of signed
\* integer tokens first and last.
C24_AnyIntegerBounds ==
    /\ \A k \in DOMAIN st_pairs :
          (StDone /\ k + 1 = st_pos /\ IntegerBounds(st_pairs[k]))
              => st_result[1].tag = "Ok"
    /\ (doc_pc \notin {"idle", "preamble", "content1"} /\ IntegerBounds(doc_pairs[2]))
          => content1 # None

\* C24 (amended): Plan building succeeds for every pair of tokens first and
\* last that denote integers of the signed 32 bit range, the first above the
\* last, zero and negative values included, and the Plan holds both as they
\* stand; its reason is the text of the third token as it stands, or absent
\* when there is none.
C24_AnyI32Bounds ==
    /\ \A k \in DOMAIN st_pairs :
          (k + 1 = st_pos /\ I32Bounds(st_pairs[k]))
              => /\ st_pc = "rest"
                    => contents[Len(contents)] =
                          [kind |-> "Plan", val |-> PlanExpected(st_pairs[k])]
                 /\ StDone => st_result[1].tag = "Ok"
    /\ (doc_pc \notin {"idle", "preamble", "content1"} /\ I32Bounds(doc_pairs[2]))
          => content1 = Some([kind |-> "Plan", val |-> PlanExpected(doc_pairs[2])])

\* A plan from 7 down to -3 has been built, with the reason "Why".
C24_Witness ==
    /\ st_pc = "scan"
    /\ \E k \in DOMAIN contents :
          contents[k] = [kind |-> "Plan",
                         val |-> [first |-> 7, last |-> -3,
                                  reason |-> Some(<<"W", "h", "y">>)]]

(***************************************************************************)
(* Termination.                                                            *)
(***************************************************************************)
\* The outcome r is a value built, or a failure: an error returned or a
\* panic that ends the call.
IsOutcome(r) == r # None /\ r[1].tag \in {"Ok", "Err", "Panic"}

\* Every call of Subtest or Document building that was started has ended
\* with an outcome.
Terminated ==
    /\ entry \in {"Subtest", "Both"} => StDone /\ IsOutcome(st_result)
    /\ entry \in {"Document", "Both"} => DocDone /\ IsOutcome(doc_result)

\* C25: for every finite parse tree, Document building and Subtest building
\* come to an end, with the value built or with a failure; in particular the
\* scan loop ends for every child sequence, whatever the number and the
\* places of its plan nodes.
C25_Termination == <>Terminated

\* The scan loop has ended on contents that held three Plans, two of them
\* next to each other.
C25_Witness ==
    /\ StDone
    /\ IsOutcome(st_result)
    /\ StChildren = <<PlanA, PlanA, PlanB>>
    /\ i = 2 /\ Len(contents) = 1

(***************************************************************************)
(* The first failure.                                                      *)
(***************************************************************************)
\* The places of the nodes of s that do not build or hold a node that does
\* not, and the first of them.
FailingPlaces(s) == {k \in DOMAIN s : FailsWithin(s[k])}

FirstFailing(s) == CHOOSE k \in FailingPlaces(s) : \A j \in FailingPlaces(s) : k <= j

\* The failure of the node that comes first, depth first and left to right,
\* among the failing nodes of the tree below node: the result of a test comes
\* before its other children, the children of a subtest before its missing
\* plan.
RECURSIVE NodeError(_)
NodeError(node) ==
    IF node.rule = "plan" THEN PlanParse(node.inner)
    ELSE IF node.rule = "number" THEN ParseI32(node.text)
    ELSE IF node.rule = "directive" THEN DirectiveParse(node.inner)
    ELSE IF node.rule = "test" /\ FailsItself(node) THEN TestResult(node.inner[1])
    ELSE IF FailingPlaces(node.inner) # {}
         THEN NodeError(node.inner[FirstFailing(node.inner)])
    ELSE UnwrapNone

\* C26 (as claimed): when several child nodes would fail to build, the
\* outcome of Subtest building is the failure of the failing node that comes
\* first in textual order, and no node after the child that holds it is
\* built.
C26_FirstErrorWins ==
    (StDone /\ Cardinality(FailingPlaces(st_pairs)) >= 2)
        => /\ st_result[1] = NodeError(st_pairs[FirstFailing(st_pairs)])
           /\ st_pos = FirstFailing(st_pairs) + 1

\* The part of C26 that holds: of the child nodes whose failure reaches
\* Subtest building, the first one gives the outcome, and no node after it
\* is built.
C26_FirstPropagatedErrorWins ==
    \A k \in DOMAIN st_pairs :
        (/\ StDone
         /\ st_pairs[k].rule # "name"
         /\ Classify(impl, st_pairs[k]).tag # "Ok"
         /\ \A j \in 1..(k - 1) :
               st_pairs[j].rule = "name" \/ Classify(impl, st_pairs[j]).tag = "Ok")
            => /\ st_result[1] = Classify(impl, st_pairs[k])
               /\ st_pos = k + 1
               /\ st_result[1] = NodeError(st_pairs[k])

(***************************************************************************)
(* The indices of the scan.                                                *)
(***************************************************************************)
\* C27: whenever the scan loop is about to run an iteration, i is an index
\* of the contents, so `contents[i]` is read and `contents.remove(i)` called
\* within bounds, and the element removed is the Plan that was tested: the
\* iteration does not panic, and no Subtest building, nested ones included,
\* ends in the index panic or in unreachable!().
C27_ScanMemorySafety ==
    /\ (st_pc = "scan" /\ ScanCondition(contents, i))
          => /\ i \in 0..(Len(contents) - 1)
             /\ ~ScanStep(contents, i, p).panic
             /\ contents[i + 1].kind = "Plan"
                   => /\ ScanStep(contents, i, p).p = Some(contents[i + 1].val)
                      /\ Len(ScanStep(contents, i, p).contents) = Len(contents) - 1
    /\ StDone => st_result[1] \notin {IndexOutOfBounds, Unreachable}

\* The loop has ended with i beyond the length of the contents: the last
\* element was a Plan, and its removal has shortened the contents.
C27_Witness ==
    /\ st_pc = "scan"
    /\ p # None
    /\ i > Len(contents)
    /\ ~ScanCondition(contents, i)

(***************************************************************************)
(* Plans that are not next to each other.                                  *)
(***************************************************************************)
\* C28: when the child nodes all build and hold one plan node or more, no
\* two of them next to each other, the scan visits every Plan (none is left
\* in the contents when the loop ends, and as many elements are removed as
\* there are plan nodes) and the plan of the Subtest is the Plan of the last
\* plan node.
C28_NonAdjacentPlans ==
    (/\ PlanPositions(StChildren) # {}
     /\ ~AdjacentPlans(StChildren)
     /\ AllBuild(impl, StChildren))
        => /\ (st_pc = "scan" /\ ~ScanCondition(contents, i))
                 => /\ \A k \in DOMAIN contents : contents[k].kind = "Statement"
                    /\ Len(contents) = Len(NonPlanNodes(StChildren))
                    /\ p = Some(PlanParse(LastPlanNode(StChildren).inner).val)
           /\ StDone
                 => /\ st_result[1].tag = "Ok"
                    /\ st_result[1].val.plan = PlanParse(LastPlanNode(StChildren).inner).val

\* A Subtest has been built from two different plan nodes with a statement
\* between them, and has the plan of the second.
C28_Witness ==
    /\ StBuilt
    /\ StChildren = <<PlanB, TestOk, PlanA>>
    /\ st_result[1].val.plan = PlanParse(PlanA.inner).val

(***************************************************************************)
(* The two builders.                                                       *)
(***************************************************************************)
\* The builder that is not running.
OtherImpl == IF impl = "lib" THEN "cli" ELSE "lib"

\* A Statement without what the two builders keep of a pragma, which is
\* C13's matter: its kind, and for a Subtest its name, its plan and the
\* shapes of its body; a Test, a BailOut and an Anything as they are.
RECURSIVE Shape(_)
Shape(stmt) ==
    IF stmt.kind = "Pragma" THEN [kind |-> "Pragma"]
    ELSE IF stmt.kind = "Subtest"
         THEN [kind |-> "Subtest",
               name |-> stmt.val.name,
               plan |-> stmt.val.plan,
               body |-> [j \in DOMAIN stmt.val.body |-> Shape(stmt.val.body[j])]]
    ELSE stmt

Shapes(body) == [j \in DOMAIN body |-> Shape(body[j])]

\* Two outcomes agree: both are failures, or both are values with the same
\* preamble (of a Document), name (of a Subtest), plan, and body shapes.
Agree(a, b) ==
    /\ (a.tag = "Ok") = (b.tag = "Ok")
    /\ a.tag = "Ok"
          => /\ DOMAIN a.val = DOMAIN b.val
             /\ a.val.plan = b.val.plan
             /\ Shapes(a.val.body) = Shapes(b.val.body)
             /\ "preamble" \in DOMAIN a.val => a.val.preamble = b.val.preamble
             /\ "name" \in DOMAIN a.val => a.val.name = b.val.name

\* C29: on every parse tree the library builder and the builder of the
\* command line tool both fail or both succeed, and when they succeed they
\* agree on the version of the preamble, on the plan (first, last, reason)
\* and on the kind, the order and the nesting of the body statements, at
\* every depth of Subtests.
C29_BuildersAgree ==
    /\ DocDone => Agree(doc_result[1], DocumentParse(OtherImpl, doc_pairs))
    /\ StDone => Agree(st_result[1], SubtestParse(OtherImpl, st_pairs))

\* The command line builder has built a Document whose body holds a Subtest
\* around a Subtest, and the library builds one from the same nodes.
C29_Witness ==
    /\ DocDone
    /\ impl = "cli"
    /\ doc_result[1].tag = "Ok"
    /\ DocumentParse("lib", doc_pairs).tag = "Ok"
    /\ \E j \in DOMAIN doc_result[1].val.body :
          /\ doc_result[1].val.body[j].kind = "Subtest"
          /\ doc_result[1].val.body[j].val.body[1].kind = "Subtest"

====
